---- MODULE Spec2Model ----
(***************************************************************************)
(* Calendar assistant: event-lifecycle pipeline.                           *)
(*   - UndoStore (lib/calendar/undo-store.ts), a time-boxed registry       *)
(*   - the notifier's registerUndoWithExpiry (lib/calendar/notifier.ts)    *)
(*   - the conflict detector (lib/calendar/conflict-detector.ts)           *)
(*   - the Telegram handlers (handlers/telegram-calendar.ts) and the       *)
(*     polling bot's handleUpdate (bot.ts)                                 *)
(* Time is the JavaScript clock Date.now() in milliseconds.                *)
(***************************************************************************)
EXTENDS Integers, Sequences, FiniteSets, TLC

VARIABLES
    now,        \* Date.now(), ms
    ticks,      \* how many times the clock has advanced (bounded)
    store,      \* UndoStore.store : Map<string, UndoState>
    timers,     \* pending setTimeout eviction callbacks of UndoStore.add
    consumed,   \* history: per handle, consume() calls that returned a record since the last add()
    adds,       \* how many add() calls were made (bounded)
    lastOp,     \* observation: what the step just taken did (call, argument, entry before it, result)
    conflictCall, \* observation: the last checkCalendarConflicts call (event, fetched events, result)
    validateCall, \* observation: the last validateParsedEvent call (candidate, the server's day, result)
    parseCall,   \* observation: the last parseEventFromInput call (input, what the LLM did, result)
    gogCall,     \* observation: the last buildGogArgs call (request, the options built for gog)
    eventCache,  \* bot.ts eventCache: key -> [message, timestamp]
    previews,    \* history: the previews sent with buttons (preview id, cache key, validated event)
    updates,     \* how many updates and handler calls were made
    lastUpdate,  \* observation: what the update or handler call just made did
    created,     \* the creation results a caller holds: handle -> CalendarCreateResult
    createCalls, \* history: the `gog calendar create` runs (request, id in the backend)
    expiryTimers, \* pending timers of registerUndoWithExpiry: [h, at, event_link]
    deleteCalls, \* history: the deleteCalendarEvent calls (calendar id, google event id)
    lastUpdateId, \* bot.ts lastUpdateId
    pollPc,      \* where poll() stands: "getUpdates", "for", "await", "delay", "catch"
    pollBatch,   \* poll(): the updates of the batch that the for loop has not reached yet
    pollCurrent, \* poll(): the update whose handleUpdate call is awaited
    telegram,    \* the updates Telegram holds for the bot, in the order of their update_id
    running,     \* how many handleUpdate calls have started and not settled
    fetchedIds,  \* history: the update_id values getUpdates has returned
    refetchedIds, \* history: the update_id values getUpdates has returned more than once
    pollSent     \* history: the messages sent while handling (update_id, text)

clockVars == <<now, ticks>>
undoVars == <<store, timers, consumed, adds>>
conflictVars == <<conflictCall>>
validatorVars == <<validateCall>>
parserVars == <<parseCall>>
creatorVars == <<gogCall>>
botVars == <<eventCache, previews>>
hostVars == <<created, createCalls, expiryTimers, deleteCalls>>
pollVars == <<lastUpdateId, pollPc, pollBatch, pollCurrent, telegram, running, fetchedIds,
              refetchedIds, pollSent>>
vars == <<now, ticks, store, timers, consumed, adds, lastOp, conflictCall, validateCall,
          parseCall, gogCall,
          eventCache, previews, updates, lastUpdate,
          created, createCalls, expiryTimers, deleteCalls,
          lastUpdateId, pollPc, pollBatch, pollCurrent, telegram, running, fetchedIds,
          refetchedIds, pollSent>>

----------------------------------------------------------------------------
(* Bounds of the model *)

MaxTicks == 2

MaxAdds == 2

\* how many updates and handler calls
MaxUpdates == 2

\* how many events the calendar backend lists for one day
MaxExisting == 2

----------------------------------------------------------------------------
(* Values *)

\* JavaScript null / undefined where an object is expected
Null == [null |-> TRUE]

\* null / undefined where a string is expected (no real string has this value)
NullStr == "<null>"

\* null / undefined where a number is expected (no real number has this value)
NullNum == 0 - 1000000

\* const UNDO_WINDOW_MS = 2 * 60 * 1000
UNDO_WINDOW_MS == 2 * 60 * 1000

\* the "+ 5_000" grace of the eviction timer
EVICTION_GRACE_MS == 5000

\* How far the clock may jump in one step: one millisecond (to stand just
\* before / after a boundary), the grace period, the undo window.
TickSteps == {1, EVICTION_GRACE_MS, UNDO_WINDOW_MS}

\* frontend event ids used as keys of the store
Handles == {"1700000000AB12CD", "1700000000EF34GH"}

\* Google Calendar event ids returned by the backend
GoogleIds == {"gcal-abc-123", "gcal-xyz-456"}

\* Date.now() was read when the event was created; add() is called at the
\* same instant or one millisecond later.
CreationLags == {0, 1}

\* Omit<UndoState, "undo_deadline"> values handed to add() at time t
NewUndoStates(t) ==
    { [google_event_id |-> g, calendar_id |-> "primary",
       event_title |-> "Reuniao", created_at |-> t - lag] :
         g \in GoogleIds, lag \in {l \in CreationLags : l <= t} }

----------------------------------------------------------------------------
(* JavaScript strings *)

Digits == {"0", "1", "2", "3", "4", "5", "6", "7", "8", "9"}

\* the character at position i (1-based)
CharAt(s, i) == SubSeq(s, i, i)

\* Number("7")
DigitValue(c) ==
    CASE c = "0" -> 0 [] c = "1" -> 1 [] c = "2" -> 2 [] c = "3" -> 3 [] c = "4" -> 4
      [] c = "5" -> 5 [] c = "6" -> 6 [] c = "7" -> 7 [] c = "8" -> 8 [] c = "9" -> 9

\* /^\d+$/ on the characters from..to of s
AllDigits(s, from, to) == \A i \in from..to : CharAt(s, i) \in Digits

\* Number(s) of a string of decimal digits
RECURSIVE ToNumber(_)
ToNumber(s) ==
    IF Len(s) = 0 THEN 0
    ELSE 10 * ToNumber(SubSeq(s, 1, Len(s) - 1)) + DigitValue(CharAt(s, Len(s)))

\* s.startsWith(prefix)
StartsWith(s, prefix) ==
    Len(s) >= Len(prefix) /\ SubSeq(s, 1, Len(prefix)) = prefix

\* s.includes(needle)
Includes(s, needle) ==
    \E i \in 1..(Len(s) - Len(needle) + 1) : SubSeq(s, i, i + Len(needle) - 1) = needle

\* s.replace(prefix, "") for a string that starts with prefix: the first
\* occurrence is the leading one
DropPrefix(s, prefix) == SubSeq(s, Len(prefix) + 1, Len(s))

\* s.trim()
RECURSIVE Trim(_)
Trim(s) ==
    IF Len(s) = 0 THEN s
    ELSE IF CharAt(s, 1) = " " THEN Trim(SubSeq(s, 2, Len(s)))
    ELSE IF CharAt(s, Len(s)) = " " THEN Trim(SubSeq(s, 1, Len(s) - 1))
    ELSE s

\* JavaScript truthiness of a string-or-null value
Truthy(v) == v # NullStr /\ v # ""

----------------------------------------------------------------------------
(* Dates and clock times as the JavaScript code reads them *)

\* NaN: the result of Number() on a non-number; every comparison with it is
\* false (no real number of the model has this value)
NaN == 0 - 2000000

\* s.split(":") of a clock time: the first two parts (undefined when missing)
ColonAt(s) == {i \in 1..Len(s) : CharAt(s, i) = ":"}
FirstPart(s) ==
    IF ColonAt(s) = {} THEN s
    ELSE SubSeq(s, 1, (CHOOSE i \in ColonAt(s) : \A j \in ColonAt(s) : i <= j) - 1)
SecondPart(s) ==
    IF ColonAt(s) = {} THEN NullStr
    ELSE LET c1 == CHOOSE i \in ColonAt(s) : \A j \in ColonAt(s) : i <= j
             later == {i \in ColonAt(s) : i > c1}
             stop == IF later = {} THEN Len(s) + 1
                     ELSE CHOOSE i \in later : \A j \in later : i <= j
         IN SubSeq(s, c1 + 1, stop - 1)

\* Number(part) for the parts of a clock time
NumberOf(part) ==
    IF part = NullStr THEN NaN
    ELSE IF part = "" THEN 0
    ELSE IF AllDigits(part, 1, Len(part)) THEN ToNumber(part)
    ELSE NaN

\* const [hour, minute] = time.split(':').map(Number); hour * 60 + minute
ClockMinutes(time) ==
    LET hour == NumberOf(FirstPart(time))
        minute == NumberOf(SecondPart(time))
    IN IF hour = NaN \/ minute = NaN THEN NaN ELSE hour * 60 + minute

\* /^\d{2}:\d{2}$/
MatchesTimePattern(time) ==
    /\ Len(time) = 5
    /\ AllDigits(time, 1, 2) /\ CharAt(time, 3) = ":" /\ AllDigits(time, 4, 5)

\* /^\d{4}-\d{2}-\d{2}$/
MatchesDatePattern(date) ==
    /\ Len(date) = 10
    /\ AllDigits(date, 1, 4) /\ CharAt(date, 5) = "-"
    /\ AllDigits(date, 6, 7) /\ CharAt(date, 8) = "-" /\ AllDigits(date, 9, 10)

DateYear(date)  == ToNumber(SubSeq(date, 1, 4))
DateMonth(date) == ToNumber(SubSeq(date, 6, 7))
DateDay(date)   == ToNumber(SubSeq(date, 9, 10))

IsLeapYear(y) == (y % 4 = 0 /\ y % 100 # 0) \/ y % 400 = 0

DaysInMonth(y, m) ==
    CASE m \in {1, 3, 5, 7, 8, 10, 12} -> 31
      [] m \in {4, 6, 9, 11} -> 30
      [] m = 2 -> IF IsLeapYear(y) THEN 29 ELSE 28

\* days from 0000-03-01 to the first of month m of year y, plus d - 1
\* (a day past the end of the month rolls over into the next, as Date does)
DayNumber(y, m, d) ==
    LET yy == IF m <= 2 THEN y - 1 ELSE y
        mm == IF m <= 2 THEN m + 9 ELSE m - 3
    IN 365 * yy + (yy \div 4) - (yy \div 100) + (yy \div 400)
         + ((153 * mm + 2) \div 5) + d - 1

\* The server's calendar day (new Date() at local midnight) and its UTC offset
\* in minutes (America/Sao_Paulo, UTC-3)
Today == [y |-> 2026, m |-> 2, d |-> 25]
ServerUtcOffsetMinutes == -3 * 60

\* An instant as <<day number, minute of the UTC day>>
LocalMidnight(dayNumber) ==
    IF ServerUtcOffsetMinutes <= 0
    THEN <<dayNumber, -ServerUtcOffsetMinutes>>
    ELSE <<dayNumber - 1, 1440 - ServerUtcOffsetMinutes>>

Before(a, b) == a[1] < b[1] \/ (a[1] = b[1] /\ a[2] < b[2])

\* the local calendar day (toDateString) of an instant
LocalDay(a) ==
    LET m == a[2] + ServerUtcOffsetMinutes
    IN IF m < 0 THEN a[1] - 1 ELSE IF m >= 1440 THEN a[1] + 1 ELSE a[1]

\* the Date whose time value is NaN ("Invalid Date")
InvalidDate == <<NaN, NaN>>

\* new Date(date) for a date string: UTC midnight of that day, or Invalid Date
ParseDate(date) ==
    IF /\ MatchesDatePattern(date)
       /\ DateMonth(date) \in 1..12 /\ DateDay(date) \in 1..31
    THEN <<DayNumber(DateYear(date), DateMonth(date), DateDay(date)), 0>>
    ELSE InvalidDate

----------------------------------------------------------------------------
(* Validator: validateParsedEvent *)

\* c.toLowerCase() for one character
LowerChar(c) ==
    CASE c = "A" -> "a" [] c = "B" -> "b" [] c = "C" -> "c" [] c = "D" -> "d"
      [] c = "E" -> "e" [] c = "F" -> "f" [] c = "G" -> "g" [] c = "H" -> "h"
      [] c = "I" -> "i" [] c = "J" -> "j" [] c = "K" -> "k" [] c = "L" -> "l"
      [] c = "M" -> "m" [] c = "N" -> "n" [] c = "O" -> "o" [] c = "P" -> "p"
      [] c = "Q" -> "q" [] c = "R" -> "r" [] c = "S" -> "s" [] c = "T" -> "t"
      [] c = "U" -> "u" [] c = "V" -> "v" [] c = "W" -> "w" [] c = "X" -> "x"
      [] c = "Y" -> "y" [] c = "Z" -> "z" [] c = "Á" -> "á"
      [] OTHER -> c

RECURSIVE ToLowerCase(_)
ToLowerCase(s) ==
    IF Len(s) = 0 THEN s
    ELSE LowerChar(CharAt(s, 1)) \o ToLowerCase(SubSeq(s, 2, Len(s)))

\* Array.join(sep)
RECURSIVE Join(_, _)
Join(seq, sep) ==
    IF seq = << >> THEN ""
    ELSE IF Len(seq) = 1 THEN seq[1]
    ELSE seq[1] \o sep \o Join(Tail(seq), sep)

\* without the round trip through new Date(year, month - 1, day)
isValidDateFormat_noRoundTrip(date) ==
    /\ MatchesDatePattern(date)
    /\ DateMonth(date) \in 1..12 /\ DateDay(date) \in 1..31

isValidDateFormat(date) ==
    /\ MatchesDatePattern(date)
    /\ DateMonth(date) \in 1..12 /\ DateDay(date) \in 1..31
    \* new Date(year, month - 1, day) must give back the same year, month, day
    \* (a year below 100 is read as 19xx)
    /\ DateYear(date) >= 100
    /\ DateDay(date) <= DaysInMonth(DateYear(date), DateMonth(date))

isValidTimeFormat(time) ==
    /\ MatchesTimePattern(time)
    /\ ToNumber(SubSeq(time, 1, 2)) <= 23
    /\ ToNumber(SubSeq(time, 4, 5)) <= 59

\* day: the server's calendar day when the call is made
validateDateRange(date, day) ==
    LET today == LocalMidnight(DayNumber(day.y, day.m, day.d))
        eventDate == ParseDate(date)
        \* maxDate.setFullYear(maxDate.getFullYear() + 1)
        maxDate == LocalMidnight(DayNumber(day.y + 1, day.m, day.d))
    IN IF eventDate = InvalidDate THEN [valid |-> TRUE, retroactive |-> FALSE, tooFar |-> FALSE]
       ELSE IF Before(eventDate, today) /\ LocalDay(eventDate) # LocalDay(today)
            THEN [valid |-> FALSE, retroactive |-> TRUE, tooFar |-> FALSE]
       ELSE IF Before(maxDate, eventDate)
            THEN [valid |-> FALSE, retroactive |-> FALSE, tooFar |-> TRUE]
       ELSE [valid |-> TRUE, retroactive |-> FALSE, tooFar |-> FALSE]

\* endMinutes >= startMinutes
isTimeAfter_orEqual(endTime, startTime) ==
    LET endMinutes == ClockMinutes(endTime)
        startMinutes == ClockMinutes(startTime)
    IN endMinutes # NaN /\ startMinutes # NaN /\ endMinutes >= startMinutes

isTimeAfter(endTime, startTime) ==
    LET endMinutes == ClockMinutes(endTime)
        startMinutes == ClockMinutes(startTime)
    IN endMinutes # NaN /\ startMinutes # NaN /\ endMinutes > startMinutes

isDurationConsistent(startTime, endTime, durationMinutes) ==
    LET e == ClockMinutes(endTime)
        b == ClockMinutes(startTime)
    IN /\ e # NaN /\ b # NaN
       /\ LET diff == (e - b) - durationMinutes
          IN (IF diff < 0 THEN -diff ELSE diff) <= 5

\* returns at the first missing field
validateRequiredFields_firstOnly(parsed) ==
    IF ~Truthy(parsed.title) \/ Len(Trim(parsed.title)) = 0 THEN <<"title_missing">>
    ELSE IF ~Truthy(parsed.start_date) THEN <<"date_missing">>
    ELSE IF ~parsed.all_day /\ ~Truthy(parsed.start_time) THEN <<"time_missing">>
    ELSE << >>

\* Step 3
validateRequiredFields(parsed) ==
       (IF ~Truthy(parsed.title) \/ Len(Trim(parsed.title)) = 0
        THEN <<"title_missing">> ELSE << >>)
    \o (IF ~Truthy(parsed.start_date) THEN <<"date_missing">> ELSE << >>)
    \o (IF ~parsed.all_day /\ ~Truthy(parsed.start_time)
        THEN <<"time_missing">> ELSE << >>)

\* title length compared with >= 100
validateFieldFormats_errors_below100(parsed, day) ==
       (IF Truthy(parsed.title) /\ (Len(parsed.title) < 1 \/ Len(parsed.title) >= 100)
        THEN <<"title_length_invalid">> ELSE << >>)
    \o (IF Truthy(parsed.start_date) /\ ~isValidDateFormat(parsed.start_date)
        THEN <<"date_format_invalid">> ELSE << >>)
    \o (IF Truthy(parsed.start_time) /\ ~isValidTimeFormat(parsed.start_time)
        THEN <<"time_format_invalid">> ELSE << >>)
    \o (IF Truthy(parsed.end_time) /\ ~isValidTimeFormat(parsed.end_time)
        THEN <<"end_time_format_invalid">> ELSE << >>)
    \o (IF ~Truthy(parsed.start_date) THEN << >>
        ELSE LET dateValidation == validateDateRange(parsed.start_date, day)
             IN IF dateValidation.valid \/ dateValidation.retroactive THEN << >>
                ELSE IF dateValidation.tooFar THEN <<"date_too_far_future">>
                ELSE <<"date_out_of_range">>)

\* Step 4: the errors
validateFieldFormats_errors(parsed, day) ==
       (IF Truthy(parsed.title) /\ (Len(parsed.title) < 1 \/ Len(parsed.title) > 100)
        THEN <<"title_length_invalid">> ELSE << >>)
    \o (IF Truthy(parsed.start_date) /\ ~isValidDateFormat(parsed.start_date)
        THEN <<"date_format_invalid">> ELSE << >>)
    \o (IF Truthy(parsed.start_time) /\ ~isValidTimeFormat(parsed.start_time)
        THEN <<"time_format_invalid">> ELSE << >>)
    \o (IF Truthy(parsed.end_time) /\ ~isValidTimeFormat(parsed.end_time)
        THEN <<"end_time_format_invalid">> ELSE << >>)
    \o (IF ~Truthy(parsed.start_date) THEN << >>
        ELSE LET dateValidation == validateDateRange(parsed.start_date, day)
             IN IF dateValidation.valid \/ dateValidation.retroactive THEN << >>
                ELSE IF dateValidation.tooFar THEN <<"date_too_far_future">>
                ELSE <<"date_out_of_range">>)

\* Step 4: the warnings
validateFieldFormats_warnings(parsed, day) ==
    IF ~Truthy(parsed.start_date) THEN << >>
    ELSE LET dateValidation == validateDateRange(parsed.start_date, day)
         IN IF ~dateValidation.valid /\ dateValidation.retroactive
            THEN <<"date_retroactive_same_day">> ELSE << >>

\* the clock times of an all-day candidate left unchecked
validateLogicalConsistency_errors_skipsAllDay(parsed) ==
    IF /\ ~parsed.all_day
       /\ Truthy(parsed.start_time) /\ Truthy(parsed.end_time)
       /\ ~isTimeAfter(parsed.end_time, parsed.start_time)
    THEN <<"time_end_before_start">> ELSE << >>

\* Step 5: the errors
validateLogicalConsistency_errors(parsed) ==
    IF /\ Truthy(parsed.start_time) /\ Truthy(parsed.end_time)
       /\ ~isTimeAfter(parsed.end_time, parsed.start_time)
    THEN <<"time_end_before_start">> ELSE << >>

\* Step 5: the warnings
validateLogicalConsistency_warnings(parsed) ==
    IF /\ Truthy(parsed.start_time) /\ Truthy(parsed.end_time)
       /\ parsed.duration_minutes # NullNum /\ parsed.duration_minutes # 0
       /\ ~isDurationConsistent(parsed.start_time, parsed.end_time, parsed.duration_minutes)
    THEN <<"duration_mismatch_times">> ELSE << >>

\* without toLowerCase()
IsInvalidDateAmbiguity_caseSensitive(a) ==
    Includes(a, "data inválida") \/ Includes(a, "invalid date")

\* a => a.toLowerCase().includes('data inválida') || a.toLowerCase().includes('invalid date')
IsInvalidDateAmbiguity(a) ==
    Includes(ToLowerCase(a), "data inválida") \/ Includes(ToLowerCase(a), "invalid date")

\* parsed.ambiguities.filter(...)
RECURSIVE invalidDateAmbiguities(_)
invalidDateAmbiguities(ambiguities) ==
    IF ambiguities = << >> THEN << >>
    ELSE IF IsInvalidDateAmbiguity(Head(ambiguities))
         THEN <<Head(ambiguities)>> \o invalidDateAmbiguities(Tail(ambiguities))
    ELSE invalidDateAmbiguities(Tail(ambiguities))

buildClarificationRequest(ambiguities) ==
    LET msgs == [i \in 1..Len(ambiguities) |->
                   IF Includes(ambiguities[i], "hora não específica")
                   THEN "horário exato (ex: 14:30)?"
                   ELSE IF Includes(ambiguities[i], "data vaga")
                   THEN "data específica (ex: 25/02)?"
                   ELSE ambiguities[i]]
    IN "Preciso de mais informações: " \o Join(msgs, ", ") \o "\n\nPode detalhar?"

errorMessages(e) ==
    CASE e = "title_missing" -> "Qual é o título do evento?"
      [] e = "date_missing" -> "Que dia será? (ex: 25/02)"
      [] e = "time_missing" -> "Que horário? (ex: 14:30)"
      [] e = "title_length_invalid" -> "Título muito curto ou muito longo (máx 100 chars)"
      [] e = "date_format_invalid" -> "Data em formato inválido"
      [] e = "time_format_invalid" -> "Horário em formato inválido (use HH:MM)"
      [] e = "end_time_format_invalid" -> "Hora final em formato inválido (use HH:MM)"
      [] e = "date_too_far_future" -> "Data muito distante (máx 1 ano no futuro)"
      [] e = "date_out_of_range" -> "Data inválida"
      [] e = "time_end_before_start" -> "Hora final deve ser depois da hora inicial"
      [] OTHER -> e

buildClarificationFromErrors(errors) ==
    \* (the bullet and the cross-mark emoji are written "*" and "[x]" here)
    LET msgs == [i \in 1..Len(errors) |-> "* " \o errorMessages(errors[i])]
    IN "[x] Evento inválido:\n" \o Join(msgs, "\n") \o "\n\nPode revisar?"

\* copies the clock times of an all-day candidate
buildValidatedEvent_keepsTimes(parsed) ==
    [title            |-> parsed.title,
     start_date       |-> parsed.start_date,
     start_time       |-> parsed.start_time,
     end_time         |-> parsed.end_time,
     duration_minutes |-> parsed.duration_minutes,
     all_day          |-> parsed.all_day,
     participants     |-> parsed.participants,
     description      |-> parsed.description,
     location         |-> parsed.location]

buildValidatedEvent(parsed) ==
    [title            |-> parsed.title,
     start_date       |-> parsed.start_date,
     start_time       |-> IF parsed.all_day THEN NullStr ELSE parsed.start_time,
     end_time         |-> IF parsed.all_day THEN NullStr ELSE parsed.end_time,
     duration_minutes |-> parsed.duration_minutes,
     all_day          |-> parsed.all_day,
     participants     |-> parsed.participants,
     description      |-> parsed.description,
     location         |-> parsed.location]

\* Step 1: the parser gave up
validateParsedEvent_error(parsed) ==
    [valid |-> FALSE, status |-> "invalid",
     errors |-> <<IF parsed.ambiguities # << >> /\ Truthy(parsed.ambiguities[1])
                  THEN parsed.ambiguities[1]
                  ELSE "Erro ao fazer parse do texto">>,
     warnings |-> << >>, clarificationRequest |-> NullStr, correctedEvent |-> Null]

\* Step 2: the candidate carries ambiguities
validateParsedEvent_ambiguities(parsed) ==
    IF invalidDateAmbiguities(parsed.ambiguities) # << >>
    THEN [valid |-> FALSE, status |-> "invalid",
          errors |-> invalidDateAmbiguities(parsed.ambiguities),
          warnings |-> << >>, clarificationRequest |-> NullStr, correctedEvent |-> Null]
    ELSE [valid |-> FALSE, status |-> "ambiguous", errors |-> << >>,
          warnings |-> << >>,
          clarificationRequest |-> buildClarificationRequest(parsed.ambiguities),
          correctedEvent |-> Null]

\* Steps 3 to 6, given the errors and the warnings the three checks pushed
validateParsedEvent_decide(parsed, errors, warnings) ==
    IF Len(errors) > 0
    THEN [valid |-> FALSE, status |-> "invalid", errors |-> errors,
          warnings |-> warnings,
          clarificationRequest |-> buildClarificationFromErrors(errors),
          correctedEvent |-> Null]
    ELSE [valid |-> TRUE, status |-> "valid", errors |-> << >>,
          warnings |-> warnings, clarificationRequest |-> NullStr,
          correctedEvent |-> buildValidatedEvent(parsed)]

\* looks at the ambiguities before the parser status
validateParsedEvent_ambiguitiesFirst(parsed, day) ==
    IF parsed.ambiguities # << >> THEN validateParsedEvent_ambiguities(parsed)
    ELSE IF parsed.status = "error" THEN validateParsedEvent_error(parsed)
    ELSE validateParsedEvent_decide(parsed,
             validateRequiredFields(parsed)
               \o validateFieldFormats_errors(parsed, day)
               \o validateLogicalConsistency_errors(parsed),
             validateFieldFormats_warnings(parsed, day)
               \o validateLogicalConsistency_warnings(parsed))

\* day: the server's calendar day when the call is made
validateParsedEvent(parsed, day) ==
    IF parsed.status = "error" THEN validateParsedEvent_error(parsed)
    ELSE IF parsed.ambiguities # << >> THEN validateParsedEvent_ambiguities(parsed)
    ELSE validateParsedEvent_decide(parsed,
             validateRequiredFields(parsed)
               \o validateFieldFormats_errors(parsed, day)
               \o validateLogicalConsistency_errors(parsed),
             validateFieldFormats_warnings(parsed, day)
               \o validateLogicalConsistency_warnings(parsed))

----------------------------------------------------------------------------
(* Inputs of the validator *)

\* the server's calendar day at the time of a call: days whose coming year
\* has no 29 February, has one, and 29 February itself
Todays ==
    {[y |-> 2026, m |-> 2, d |-> 25], [y |-> 2027, m |-> 3, d |-> 1],
     [y |-> 2027, m |-> 12, d |-> 31], [y |-> 2028, m |-> 2, d |-> 29],
     [y |-> 2028, m |-> 3, d |-> 1]}

Pad2(n) == IF n < 10 THEN "0" \o ToString(n) ELSE ToString(n)

\* YYYY-MM-DD of a calendar day
DateString(day) == ToString(day.y) \o "-" \o Pad2(day.m) \o "-" \o Pad2(day.d)

\* the calendar day n days after day (before it, for a negative n), a month
\* at a time
RECURSIVE AddDays(_, _)
AddDays(day, n) ==
    IF n = 0 THEN day
    ELSE IF n > 0
    THEN IF n <= DaysInMonth(day.y, day.m) - day.d THEN [day EXCEPT !.d = day.d + n]
         ELSE AddDays(IF day.m < 12 THEN [day EXCEPT !.m = day.m + 1, !.d = 1]
                      ELSE [y |-> day.y + 1, m |-> 1, d |-> 1],
                      n - (DaysInMonth(day.y, day.m) - day.d) - 1)
    ELSE IF 0 - n < day.d THEN [day EXCEPT !.d = day.d + n]
         ELSE AddDays(IF day.m > 1
                      THEN [day EXCEPT !.m = day.m - 1, !.d = DaysInMonth(day.y, day.m - 1)]
                      ELSE [y |-> day.y - 1, m |-> 12, d |-> 31],
                      n + day.d)

\* c repeated n times
RECURSIVE Repeat(_, _)
Repeat(c, n) == IF n = 0 THEN "" ELSE c \o Repeat(c, n - 1)

\* titles: absent, empty, blank, of 1, 100 and 101 characters
Titles ==
    {NullStr, "", " ", "A", "Reuniao com Joao", Repeat("A", 100), Repeat("A", 101),
     Repeat(" ", 101)}

\* start dates as days counted from the server's day
DayOffsets == {0 - 366, 0 - 1, 0, 1, 364, 365, 366, 367, 731}

\* start dates that are no calendar day or are not written YYYY-MM-DD, and
\* one 29 February that exists
OtherDates ==
    {"2026-02-30", "2026-04-31", "2027-02-29", "2028-02-29", "2026-13-01",
     "2026-00-10", "2026-06-00", "2026-06-32", "2026-2-5", "25/02/2026"}

\* clock times, well formed and not
ValidatorTimes == {"00:00", "09:05", "14:30", "14:31", "23:59"}
OtherTimes == {"24:00", "14:60", "9:05"}

\* ambiguity lists the parser may attach
AmbiguityLists ==
    {<< >>, <<"">>, <<"Input vazio">>,
     <<"hora não específica: 'à noite'">>,
     <<"data vaga: 'próxima semana'">>,
     <<"Data inválida: 30/02">>,
     <<"INVALID DATE 31/04">>,
     <<"hora não específica: 'à noite'", "data inválida: 30/02", "Invalid date">>,
     <<"data vaga", "titulo incerto">>}

\* a complete timed candidate for the day after the server's day
BaseCandidate(today) ==
    [status |-> "success", confidence |-> 95,
     title |-> "Reuniao com Joao", start_date |-> DateString(AddDays(today, 1)),
     start_time |-> "14:30", end_time |-> "15:30",
     duration_minutes |-> 60, all_day |-> FALSE,
     participants |-> << >>, description |-> NullStr, location |-> NullStr,
     ambiguities |-> << >>, raw_input |-> "Reuniao com Joao amanha 14:30"]

\* candidates of every status and ambiguity list, with good and bad fields
StatusCandidates(today) ==
    {[b EXCEPT !.status = st, !.ambiguities = am] :
        b \in {BaseCandidate(today),
               [BaseCandidate(today) EXCEPT !.title = NullStr],
               [BaseCandidate(today) EXCEPT !.start_date = "2026-02-30"],
               [BaseCandidate(today) EXCEPT !.title = NullStr, !.start_date = NullStr,
                                            !.start_time = NullStr, !.end_time = NullStr,
                                            !.duration_minutes = NullNum]},
        st \in {"success", "ambiguous", "error"},
        am \in AmbiguityLists}

\* candidates that differ in the fields the required-field and format checks read
FieldCandidates(today) ==
    {[BaseCandidate(today) EXCEPT !.title = ti, !.start_date = da, !.start_time = st,
                                  !.end_time = en, !.all_day = ad] :
        ti \in Titles,
        da \in {NullStr, DateString(AddDays(today, 1)), "2026-02-30"},
        st \in {NullStr, "14:30", "25:00"},
        en \in {NullStr, "15:30", "14:30"},
        ad \in BOOLEAN}

\* candidates that differ in the start date
DateCandidates(today) ==
    {[BaseCandidate(today) EXCEPT !.start_date = da] :
        da \in {DateString(AddDays(today, n)) : n \in DayOffsets} \cup OtherDates}

\* candidates that differ in the clock times and the duration
TimeCandidates(today) ==
    {[BaseCandidate(today) EXCEPT !.start_time = st, !.end_time = en, !.duration_minutes = du] :
        st \in ValidatorTimes \cup OtherTimes,
        en \in ValidatorTimes \cup OtherTimes \cup {NullStr},
        du \in {NullNum, 0, 60}}

Candidates(today) ==
    StatusCandidates(today) \cup FieldCandidates(today)
      \cup DateCandidates(today) \cup TimeCandidates(today)

----------------------------------------------------------------------------
(* Conflict detector *)

\* a thrown exception / rejected promise
Throw == [throw |-> TRUE]

\* a < b on JavaScript numbers (false when either is NaN)
NumLess(a, b) == a # NaN /\ b # NaN /\ a < b

isOverlapping_inclusive(start1, end1, start2, end2) ==
    ~NumLess(end2, start1) /\ ~NumLess(end1, start2)

\* return start1 < end2 && start2 < end1
isOverlapping(start1, end1, start2, end2) ==
    NumLess(start1, end2) /\ NumLess(start2, end1)

timeToMinutes(time) == ClockMinutes(time)

\* the 60 minutes of the creation used when the duration is missing or 0
calculateEndTime_creationDefault(startTime, durationMinutes) ==
    LET startMin == timeToMinutes(startTime)
    IN IF startMin = NaN THEN NaN
       ELSE startMin + (IF durationMinutes = NullNum \/ durationMinutes = 0
                        THEN 60 ELSE durationMinutes)

\* startMin + (durationMinutes || 0)
calculateEndTime(startTime, durationMinutes) ==
    LET startMin == timeToMinutes(startTime)
    IN IF startMin = NaN THEN NaN
       ELSE startMin + (IF durationMinutes = NullNum THEN 0 ELSE durationMinutes)

\* positions where /T(\d{2}):(\d{2})/ matches
TimeMatches(s) ==
    {i \in 1..(Len(s) - 5) :
        /\ CharAt(s, i) = "T"
        /\ AllDigits(s, i + 1, i + 2) /\ CharAt(s, i + 3) = ":" /\ AllDigits(s, i + 4, i + 5)}

\* HH:MM of an RFC3339 dateTime, null for an all-day (date-only) value
extractTimeFromEvent(timeObj) ==
    IF ~Truthy(timeObj.dateTime) THEN NullStr
    ELSE IF TimeMatches(timeObj.dateTime) = {} THEN NullStr
    ELSE LET i == CHOOSE k \in TimeMatches(timeObj.dateTime) :
                     \A j \in TimeMatches(timeObj.dateTime) : k <= j
         IN SubSeq(timeObj.dateTime, i + 1, i + 5)

\* the forEach callback dereferences evt.start and, unless it returned
\* early, evt.end: a missing object is a TypeError
EventThrows(evt) ==
    \/ evt.start = Null
    \/ /\ (Truthy(evt.start.dateTime) \/ Truthy(evt.start.date))
       /\ evt.end = Null

\* the forEach callback pushes a ConflictInfo for this event
EventConflicts(newStart, newEnd, evt) ==
    /\ (Truthy(evt.start.dateTime) \/ Truthy(evt.start.date))
    /\ Truthy(extractTimeFromEvent(evt.start))
    /\ Truthy(extractTimeFromEvent(evt.end))
    /\ isOverlapping(newStart, newEnd,
                     timeToMinutes(extractTimeFromEvent(evt.start)),
                     timeToMinutes(extractTimeFromEvent(evt.end)))

\* the ConflictInfo entries pushed in front of the earlier ones
RECURSIVE CollectConflicts_newestFirst(_, _, _, _)
CollectConflicts_newestFirst(newEvent, newStart, newEnd, events) ==
    IF events = << >> THEN << >>
    ELSE LET evt == Head(events)
             rest == CollectConflicts_newestFirst(newEvent, newStart, newEnd, Tail(events))
         IN IF EventConflicts(newStart, newEnd, evt)
            THEN rest \o <<[title |-> evt.title,
                            start_time |-> extractTimeFromEvent(evt.start),
                            end_time |-> extractTimeFromEvent(evt.end),
                            calendar_event_id |-> evt.id,
                            event_date |-> newEvent.start_date]>>
            ELSE rest

RECURSIVE CollectConflicts(_, _, _, _)
CollectConflicts(newEvent, newStart, newEnd, events) ==
    IF events = << >> THEN << >>
    ELSE LET evt == Head(events)
             rest == CollectConflicts(newEvent, newStart, newEnd, Tail(events))
         IN IF EventConflicts(newStart, newEnd, evt)
            THEN <<[title |-> evt.title,
                    start_time |-> extractTimeFromEvent(evt.start),
                    end_time |-> extractTimeFromEvent(evt.end),
                    calendar_event_id |-> evt.id,
                    event_date |-> newEvent.start_date]>> \o rest
            ELSE rest

\* the list of conflicts, or a TypeError out of the forEach callback
findOverlappingEvents(newEvent, existingEvents) ==
    IF ~Truthy(newEvent.start_time) \/ newEvent.all_day
    THEN [threw |-> FALSE, conflicts |-> << >>]
    ELSE IF \E i \in 1..Len(existingEvents) : EventThrows(existingEvents[i])
    THEN [threw |-> TRUE, conflicts |-> << >>]
    ELSE LET newStart == timeToMinutes(newEvent.start_time)
             newEnd == IF Truthy(newEvent.end_time)
                       THEN timeToMinutes(newEvent.end_time)
                       ELSE calculateEndTime(newEvent.start_time, newEvent.duration_minutes)
         IN [threw |-> FALSE,
             conflicts |-> CollectConflicts(newEvent, newStart, newEnd, existingEvents)]

NoConflicts == [has_conflicts |-> FALSE, conflicts |-> << >>]

\* fetched: what fetchEventsForDate gave, [threw, events]
checkCalendarConflicts_noCatch(event, fetched) ==
    IF fetched.threw THEN Throw
    ELSE IF event.all_day THEN NoConflicts
    ELSE LET found == findOverlappingEvents(event, fetched.events)
         IN IF found.threw THEN Throw
            ELSE [has_conflicts |-> Len(found.conflicts) > 0, conflicts |-> found.conflicts]

\* an all-day event compared as one that lasts from 00:00 to 23:59
checkCalendarConflicts_allDaySpansDay(event, fetched) ==
    IF fetched.threw THEN NoConflicts
    ELSE LET timed == IF event.all_day
                      THEN [event EXCEPT !.all_day = FALSE, !.start_time = "00:00",
                                         !.end_time = "23:59"]
                      ELSE event
             found == findOverlappingEvents(timed, fetched.events)
         IN IF found.threw THEN NoConflicts
            ELSE [has_conflicts |-> Len(found.conflicts) > 0, conflicts |-> found.conflicts]

checkCalendarConflicts(event, fetched) ==
    IF fetched.threw THEN NoConflicts
    ELSE IF event.all_day THEN NoConflicts
    ELSE LET found == findOverlappingEvents(event, fetched.events)
         IN IF found.threw THEN NoConflicts
            ELSE [has_conflicts |-> Len(found.conflicts) > 0, conflicts |-> found.conflicts]

\* checkCalendarConflicts, the queries of the backend made before the result:
\* fetchEventsForDate(event.start_date, calendarId) is awaited first, before
\* event.all_day is read
checkCalendarConflicts_queries(event) ==
    <<[fn |-> "fetchEventsForDate", date |-> event.start_date]>>

----------------------------------------------------------------------------
(* Inputs of the conflict detector *)

ClockTimes == {"14:00", "14:15", "14:45", "15:00", "15:01", "16:00"}

\* ValidatedEvent values on one day; a timed one has its end after its start
\* when it has an end
TimedEvent(start, end, duration) ==
    [title |-> "New Meeting", start_date |-> "2026-02-25",
     start_time |-> start, end_time |-> end, duration_minutes |-> duration,
     all_day |-> FALSE, participants |-> << >>,
     description |-> NullStr, location |-> NullStr]

AllDayEvent ==
    [title |-> "Congresso de TI", start_date |-> "2026-02-25",
     start_time |-> NullStr, end_time |-> NullStr, duration_minutes |-> NullNum,
     all_day |-> TRUE, participants |-> << >>,
     description |-> NullStr, location |-> NullStr]

NewEvents ==
    UNION {{TimedEvent(s, e, NullNum) : e \in {x \in ClockTimes : isTimeAfter(x, s)}} :
              s \in ClockTimes}
    \cup {TimedEvent(s, NullStr, d) : s \in ClockTimes, d \in {NullNum, 0, 30}}
    \cup {AllDayEvent}

\* CalendarEvent values of the backend: timed (RFC3339 start and end)
ExistingSlots ==
    {<<"14:00", "15:00">>, <<"15:00", "16:00">>, <<"14:15", "14:45">>, <<"23:30", "00:30">>}

RFC3339(date, time) == date \o "T" \o time \o ":00-03:00"

TimedCalendarEvent(slot) ==
    [id |-> "evt-" \o slot[1], title |-> "Existing " \o slot[1],
     start |-> [dateTime |-> RFC3339("2026-02-25", slot[1]), date |-> NullStr],
     end   |-> [dateTime |-> RFC3339("2026-02-25", slot[2]), date |-> NullStr]]

\* all-day (date only), without start fields, without a start object at all
OtherCalendarEvents ==
    {[id |-> "evt-allday", title |-> "Feriado",
      start |-> [dateTime |-> NullStr, date |-> "2026-02-25"],
      end   |-> [dateTime |-> NullStr, date |-> "2026-02-26"]],
     [id |-> "evt-empty", title |-> "Sem horario",
      start |-> [dateTime |-> NullStr, date |-> NullStr],
      end   |-> [dateTime |-> NullStr, date |-> NullStr]],
     [id |-> "evt-noend", title |-> "Sem fim",
      start |-> [dateTime |-> RFC3339("2026-02-25", "14:00"), date |-> NullStr],
      end   |-> [dateTime |-> NullStr, date |-> "2026-02-26"]],
     [id |-> "evt-broken", title |-> "Sem start", start |-> Null, end |-> Null]}

CalendarEvents == {TimedCalendarEvent(slot) : slot \in ExistingSlots} \cup OtherCalendarEvents

RECURSIVE ListsUpTo(_, _)
ListsUpTo(S, n) ==
    IF n = 0 THEN {<< >>}
    ELSE ListsUpTo(S, n - 1)
           \cup {Append(l, x) : l \in {k \in ListsUpTo(S, n - 1) : Len(k) = n - 1}, x \in S}

\* what fetchEventsForDate gives: the day's events, or a failure of the
\* backend query (the body shipped is a stub that gives the empty list)
FetchOutcomes ==
    {[threw |-> FALSE, events |-> l] : l \in ListsUpTo(CalendarEvents, MaxExisting)}
    \cup {[threw |-> TRUE, events |-> << >>]}

----------------------------------------------------------------------------
(* Previewer: generatePreview *)

\* Date.now() is EpochSeconds * 1000 + now
EpochSeconds == 1700000000

Pad3(n) == IF n < 10 THEN "00" \o ToString(n)
           ELSE IF n < 100 THEN "0" \o ToString(n) ELSE ToString(n)

\* String(Date.now()) at time t
DateNowString(t) == ToString(EpochSeconds + (t \div 1000)) \o Pad3(t % 1000)

\* Math.random().toString(36).substring(2, 8).toUpperCase()
RandomSuffixes == {"AB12CD", "EF34GH"}

\* `${Math.floor(Date.now() / 1000)}${random}`
generateEventId(t, random) == ToString(EpochSeconds + (t \div 1000)) \o random

buildInlineKeyboard(eventId) ==
    <<[text |-> "Confirmar", callback_data |-> "confirm:" \o eventId],
      [text |-> "Editar", callback_data |-> "edit:" \o eventId],
      [text |-> "Cancelar", callback_data |-> "cancel:" \o eventId]>>

\* the preview text is kept as what it renders: the event and the conflicts
generatePreview(event, conflicts, t, random) ==
    [text |-> [kind |-> "preview", event |-> event, conflicts |-> conflicts],
     keyboard |-> buildInlineKeyboard(generateEventId(t, random)),
     event_id |-> generateEventId(t, random)]

----------------------------------------------------------------------------
(* Creator: createCalendarEvent *)

\* process.env.GOG_ACCOUNT || "mepoupz@gmail.com"
GOG_ACCOUNT == "mepoupz@gmail.com"
DEFAULT_CALENDAR_ID == GOG_ACCOUNT
OWNER_EMAIL == "jgcalice@gmail.com"

\* what running `gog calendar create` gives: the event is created and its
\* JSON printed, the command fails, or the event is created and the output
\* is not JSON
GogOutcomes ==
    {[kind |-> "ok", id |-> "gcal-abc-123"],
     [kind |-> "exec_failed", id |-> NullStr],
     [kind |-> "bad_output", id |-> "gcal-xyz-456"]}

\* createCalendarEvent(req) at time t: thrown error or result, whether gog
\* ran, and the id of the event the backend then holds
createCalendarEvent(req, gog, t) ==
    IF ~req.event.all_day /\ ~Truthy(req.event.start_time)
    THEN [threw |-> TRUE, message |-> "start_time is required for non-all-day events",
          executed |-> FALSE, backend_id |-> NullStr, result |-> Null]
    ELSE IF gog.kind = "exec_failed"
    THEN [threw |-> TRUE, message |-> "gog calendar create failed: exit 1",
          executed |-> TRUE, backend_id |-> NullStr, result |-> Null]
    ELSE IF gog.kind = "bad_output"
    THEN [threw |-> TRUE, message |-> "Failed to parse gog output: ",
          executed |-> TRUE, backend_id |-> gog.id, result |-> Null]
    ELSE [threw |-> FALSE, message |-> NullStr, executed |-> TRUE, backend_id |-> gog.id,
          result |-> [success |-> TRUE,
                      google_event_id |-> gog.id,
                      calendar_id |-> IF Truthy(req.calendar_id) THEN req.calendar_id
                                      ELSE DEFAULT_CALENDAR_ID,
                      event_link |-> "https://www.google.com/calendar/event?eid=" \o gog.id,
                      title |-> req.event.title,
                      created_at |-> t]]

\* buildRFC3339(date, time) for a real day and a clock time: the day as the
\* Date object reads it back, the hour and minute of the split, padded
buildRFC3339(date, time) ==
    date \o "T" \o Pad2(NumberOf(FirstPart(time))) \o ":"
         \o Pad2(NumberOf(SecondPart(time))) \o ":00-03:00"

\* the hour is not reduced modulo 24
computeEndTime_noWrap(startTime, durationMinutes) ==
    LET totalMinutes == NumberOf(FirstPart(startTime)) * 60
                        + NumberOf(SecondPart(startTime)) + durationMinutes
    IN Pad2(totalMinutes \div 60) \o ":" \o Pad2(totalMinutes % 60)

\* computeEndTime(startTime, durationMinutes)
computeEndTime(startTime, durationMinutes) ==
    LET h == NumberOf(FirstPart(startTime))
        m == NumberOf(SecondPart(startTime))
        totalMinutes == h * 60 + m + durationMinutes
        endH == (totalMinutes \div 60) % 24
        endM == totalMinutes % 60
    IN Pad2(endH) \o ":" \o Pad2(endM)

\* the duration is read with || : 0 counts as missing
buildGogArgs_endTime_zeroIsMissing(event) ==
    IF Truthy(event.end_time) THEN event.end_time
    ELSE computeEndTime(event.start_time,
                        IF event.duration_minutes # NullNum /\ event.duration_minutes # 0
                        THEN event.duration_minutes ELSE 60)

\* buildGogArgs, the end of a timed event: event.end_time, or the start plus
\* event.duration_minutes ?? 60
buildGogArgs_endTime(event) ==
    IF Truthy(event.end_time) THEN event.end_time
    ELSE computeEndTime(event.start_time,
                        IF event.duration_minutes # NullNum
                        THEN event.duration_minutes ELSE 60)

\* buildGogArgs, the attendees: the owner, then the email of every
\* participant that has one other than the owner's
RECURSIVE buildGogArgs_attendees(_)
buildGogArgs_attendees(participants) ==
    IF participants = << >> THEN <<OWNER_EMAIL>>
    ELSE LET p == participants[Len(participants)]
             before == buildGogArgs_attendees(SubSeq(participants, 1, Len(participants) - 1))
         IN IF Truthy(p.email) /\ p.email # OWNER_EMAIL
            THEN Append(before, p.email) ELSE before

\* buildGogArgs(req): the options gog is run with, or the thrown error
buildGogArgs(req) ==
    IF ~req.event.all_day /\ ~Truthy(req.event.start_time)
    THEN [threw |-> TRUE, message |-> "start_time is required for non-all-day events"]
    ELSE [threw |-> FALSE,
          calendar |-> IF Truthy(req.calendar_id) THEN req.calendar_id
                       ELSE DEFAULT_CALENDAR_ID,
          account |-> GOG_ACCOUNT,
          summary |-> req.event.title,
          all_day |-> req.event.all_day,
          from |-> IF req.event.all_day THEN req.event.start_date
                   ELSE buildRFC3339(req.event.start_date, req.event.start_time),
          to |-> IF req.event.all_day THEN req.event.start_date
                 ELSE buildRFC3339(req.event.start_date, buildGogArgs_endTime(req.event)),
          attendees |-> Join(buildGogArgs_attendees(req.event.participants), ","),
          attendee_list |-> buildGogArgs_attendees(req.event.participants),
          description |-> IF Truthy(req.event.description) THEN req.event.description
                          ELSE NullStr,
          location |-> IF Truthy(req.event.location) THEN req.event.location ELSE NullStr,
          reminder |-> "popup:30m"]

\* the participants of the events handed to the creator: resolved with an
\* email, unresolved without one, unresolved with an email the LLM gave,
\* marked resolved without an email, and the owner
CreatorParticipants ==
    {[name |-> "Joao", email |-> "joao@example.com", resolved |-> TRUE],
     [name |-> "Maria", email |-> NullStr, resolved |-> FALSE],
     [name |-> "Ana", email |-> "ana@example.com", resolved |-> FALSE],
     [name |-> "Rui", email |-> NullStr, resolved |-> TRUE],
     [name |-> "Joao Calice", email |-> OWNER_EMAIL, resolved |-> TRUE]}

\* the lists of at most two participants
CreatorParticipantLists ==
    {<< >>} \cup {<<p>> : p \in CreatorParticipants}
            \cup {<<p, q>> : p \in CreatorParticipants, q \in CreatorParticipants}

\* start times, end times (or none) and durations (or none) of the events
\* handed to the creator
CreatorStartTimes == {"00:00", "09:05", "14:30", "23:45"}
CreatorEndTimes == {NullStr, "15:30"}
CreatorDurations == {NullNum, 0, 30, 45, 60, 90, 1500}

\* the validated events handed to the creator
CreatorEvents ==
    {[title |-> "Reuniao com Joao", start_date |-> "2026-02-25",
      start_time |-> st, end_time |-> en, duration_minutes |-> du, all_day |-> FALSE,
      participants |-> ps, description |-> NullStr, location |-> NullStr] :
        st \in CreatorStartTimes, en \in CreatorEndTimes, du \in CreatorDurations,
        ps \in CreatorParticipantLists}
    \cup {[title |-> "Feriado", start_date |-> "2026-02-25",
           start_time |-> NullStr, end_time |-> NullStr, duration_minutes |-> NullNum,
           all_day |-> TRUE, participants |-> ps, description |-> NullStr,
           location |-> NullStr] : ps \in CreatorParticipantLists}

----------------------------------------------------------------------------
(* Telegram handlers: handleTelegramInput, handleConfirmation, handleCancellation *)

\* `buttons` of a response that has none (the property is undefined)
NoButtons == << >>

Response(chat_id, text, buttons) ==
    [chat_id |-> chat_id, text |-> text, buttons |-> buttons, action |-> "send"]

\* a property of a response object; undefined when it has none of that name
ResponseField(response, name) ==
    IF name \in DOMAIN response THEN response[name] ELSE Null

PreviewButtons(event_id) ==
    <<[text |-> "Confirmar", callback_data |-> "confirm_" \o event_id],
      [text |-> "Cancelar", callback_data |-> "cancel_" \o event_id],
      [text |-> "Editar", callback_data |-> "edit_" \o event_id]>>

handleTelegramInput_invalid_withButtons(msg, validation) ==
    Response(msg.chat_id, [kind |-> "error", body |-> "Erro ao processar evento"],
             PreviewButtons("0"))

\* Step 3, `if (!validation.valid)`: the clarification or the first error
handleTelegramInput_invalid(msg, validation) ==
    IF Truthy(validation.clarificationRequest)
    THEN Response(msg.chat_id,
                  [kind |-> "clarify",
                   body |-> "Preciso esclarecer:\n\n" \o validation.clarificationRequest],
                  NoButtons)
    ELSE Response(msg.chat_id,
                  [kind |-> "error",
                   body |-> IF validation.errors # << >> /\ Truthy(validation.errors[1])
                            THEN validation.errors[1]
                            ELSE "Erro ao processar evento"],
                  NoButtons)

\* Steps 5 and 6: the preview and its buttons (or the catch, had the check thrown)
handleTelegramInput_preview(msg, event, conflicts, t, random) ==
    IF conflicts = Throw
    THEN \* catch (error)
         [response |-> Response(msg.chat_id,
                                [kind |-> "error", body |-> "Erro ao processar: "],
                                NoButtons),
          conflict_check |-> conflicts]
    ELSE [response |-> Response(msg.chat_id,
                                generatePreview(event,
                                                IF conflicts.has_conflicts
                                                THEN conflicts.conflicts ELSE << >>,
                                                t, random).text,
                                PreviewButtons(generateEventId(t, random))),
          conflict_check |-> conflicts]

\* Steps 3 and 4: the validation result decides; a valid event is checked
\* for conflicts
handleTelegramInput_validated(msg, validation, fetched, t, random) ==
    IF ~validation.valid
    THEN [response |-> handleTelegramInput_invalid(msg, validation),
          conflict_check |-> Null]
    ELSE handleTelegramInput_preview(msg, validation.correctedEvent,
             checkCalendarConflicts(validation.correctedEvent, fetched), t, random)

\* handleTelegramInput(msg): the response returned, with the conflict check
\* made on the way (Null when checkCalendarConflicts was not called).
\* parsed: what parseEventFromInput gave for the input; fetched: what the
\* calendar query gave; t, random: the clock and Math.random() at the preview
handleTelegramInput(msg, parsed, fetched, t, random) ==
    IF Trim(IF Truthy(msg.text) THEN msg.text
            ELSE IF Truthy(msg.voice) THEN msg.voice ELSE "") = ""
    THEN [response |-> Response(msg.chat_id,
                                [kind |-> "prompt",
                                 body |-> "Por favor, envie um evento ou comando."],
                                NoButtons),
          conflict_check |-> Null]
    ELSE handleTelegramInput_validated(msg, validateParsedEvent(parsed, Today), fetched, t, random)

\* handleConfirmation(chat_id, event_id, event): the response, the
\* createCalendarEvent call it made (Null when `event.title` threw first),
\* the result of the creation, and the undo registration it made (Null: the
\* body neither calls registerUndoWithExpiry nor touches the undoStore)
handleConfirmation_registersFirst(chat_id, event_id, event, gog, t) ==
    LET req == [event |-> event, event_id |-> event_id,
                calendar_id |-> "primary", owner_email |-> "jgcalice@gmail.com"]
        c == createCalendarEvent(req, gog, t)
    IN [response |-> Response(chat_id,
                              IF c.threw
                              THEN [kind |-> "create_error",
                                    body |-> "Erro ao criar evento: " \o c.message]
                              ELSE [kind |-> "created", title |-> event.title,
                                    event_link |-> c.result.event_link,
                                    google_event_id |-> c.result.google_event_id],
                              NoButtons),
        call |-> [request |-> req, executed |-> c.executed, backend_id |-> c.backend_id],
        result |-> c.result,
        undo |-> [google_event_id |-> "pending", calendar_id |-> "primary",
                  event_title |-> event.title, created_at |-> t]]

handleConfirmation(chat_id, event_id, event, gog, t) ==
    IF event = Null
    THEN [response |-> Response(chat_id,
                         [kind |-> "create_error",
                          body |-> "Erro ao criar evento: Cannot read properties of undefined (reading 'title')"],
                         NoButtons),
          call |-> Null, result |-> Null, undo |-> Null]
    ELSE LET req == [event |-> event, event_id |-> event_id,
                     calendar_id |-> "primary", owner_email |-> "jgcalice@gmail.com"]
             c == createCalendarEvent(req, gog, t)
         IN IF c.threw
            THEN [response |-> Response(chat_id,
                                 [kind |-> "create_error",
                                  body |-> "Erro ao criar evento: " \o c.message],
                                 NoButtons),
                  call |-> [request |-> req, executed |-> c.executed, backend_id |-> c.backend_id],
                  result |-> Null, undo |-> Null]
            ELSE [response |-> Response(chat_id,
                                 [kind |-> "created", title |-> event.title,
                                  event_link |-> c.result.event_link,
                                  google_event_id |-> c.result.google_event_id],
                                 NoButtons),
                  call |-> [request |-> req, executed |-> c.executed, backend_id |-> c.backend_id],
                  result |-> c.result, undo |-> Null]

handleCancellation(chat_id, event_id) ==
    Response(chat_id, [kind |-> "cancelled", body |-> "Evento cancelado."], NoButtons)

\* registerUndoWithExpiry(frontendEventId, result, onExpiry): the state it
\* passes to undoStore.add and the expiry timer it schedules at time t
registerUndoWithExpiry_state(result) ==
    [google_event_id |-> result.google_event_id,
     calendar_id     |-> result.calendar_id,
     event_title     |-> result.title,
     created_at      |-> result.created_at]

registerUndoWithExpiry_timer(frontendEventId, result, t) ==
    [h |-> frontendEventId, at |-> t + UNDO_WINDOW_MS, event_link |-> result.event_link]

----------------------------------------------------------------------------
(* UndoStore *)

\* Map.set
MapSet(m, k, v) == [x \in DOMAIN m \cup {k} |-> IF x = k THEN v ELSE m[x]]

\* Map.delete that leaves the entry where it is
MapDelete_keepsEntry(m, k) == m

\* Map.delete
MapDelete(m, k) == [x \in DOMAIN m \ {k} |-> m[x]]

\* Map.get
MapGet(m, k) == IF k \in DOMAIN m THEN m[k] ELSE Null

\* add(): the entry written to the map
add_entry(state) ==
    [google_event_id |-> state.google_event_id,
     calendar_id     |-> state.calendar_id,
     event_title     |-> state.event_title,
     created_at      |-> state.created_at,
     undo_deadline   |-> state.created_at + UNDO_WINDOW_MS]

\* a timer whose callback deletes the entry of no handle
add_timer_noHandle(h, t) == [h |-> NullStr, at |-> t + UNDO_WINDOW_MS + EVICTION_GRACE_MS]

\* add(): the eviction timer it schedules at time t
add_timer(h, t) == [h |-> h, at |-> t + UNDO_WINDOW_MS + EVICTION_GRACE_MS]

\* consume(frontendEventId) at time t: the returned value and the map afterwards
consume_keepsEntry(st, h, t) ==
    LET entry == MapGet(st, h) IN
    IF entry = Null THEN [ret |-> Null, store |-> st]
    ELSE IF t > entry.undo_deadline THEN [ret |-> Null, store |-> MapDelete(st, h)]
    ELSE [ret |-> entry, store |-> st]

consume_ignoresDeadline(st, h, t) ==
    LET entry == MapGet(st, h) IN
    IF entry = Null THEN [ret |-> Null, store |-> st]
    ELSE [ret |-> entry, store |-> MapDelete(st, h)]

consume(st, h, t) ==
    LET entry == MapGet(st, h) IN
    IF entry = Null THEN [ret |-> Null, store |-> st]
    ELSE IF t > entry.undo_deadline THEN [ret |-> Null, store |-> MapDelete(st, h)]
    ELSE [ret |-> entry, store |-> MapDelete(st, h)]

\* deletes the entry it returns, as consume does
peek_removesEntry(st, h, t) ==
    LET entry == MapGet(st, h) IN
    IF entry = Null THEN [ret |-> Null, store |-> st]
    ELSE IF t > entry.undo_deadline THEN [ret |-> Null, store |-> MapDelete(st, h)]
    ELSE [ret |-> entry, store |-> MapDelete(st, h)]

\* peek(frontendEventId) at time t: an expired entry is deleted, a live one is kept
peek(st, h, t) ==
    LET entry == MapGet(st, h) IN
    IF entry = Null THEN [ret |-> Null, store |-> st]
    ELSE IF t > entry.undo_deadline THEN [ret |-> Null, store |-> MapDelete(st, h)]
    ELSE [ret |-> entry, store |-> st]

\* isAlive(frontendEventId) at time t: this.peek(frontendEventId) !== null
isAlive(st, h, t) ==
    [ret |-> peek(st, h, t).ret # Null, store |-> peek(st, h, t).store]

\* Math.ceil(ms / 1000) for an integer ms
CeilSeconds(ms) == IF ms >= 0 THEN (ms + 999) \div 1000 ELSE 0 - ((0 - ms) \div 1000)

\* Math.floor instead of Math.ceil
remainingSeconds_floor(st, h, t) ==
    [ret |-> IF peek(st, h, t).ret = Null THEN 0
             ELSE (peek(st, h, t).ret.undo_deadline - t) \div 1000,
     store |-> peek(st, h, t).store]

\* remainingSeconds(frontendEventId) at time t
remainingSeconds(st, h, t) ==
    [ret |-> IF peek(st, h, t).ret = Null THEN 0
             ELSE LET secs == CeilSeconds(peek(st, h, t).ret.undo_deadline - t)
                  IN IF secs > 0 THEN secs ELSE 0,
     store |-> peek(st, h, t).store]

----------------------------------------------------------------------------
(* The parser (parseEventFromInput) and the call to the LLM collaborator *)

\* s.indexOf(needle, from), 1-based; 0 when there is none
IndexOf(s, needle, from) ==
    LET hits == {i \in from..(Len(s) - Len(needle) + 1) :
                    SubSeq(s, i, i + Len(needle) - 1) = needle}
    IN IF hits = {} THEN 0 ELSE CHOOSE i \in hits : \A j \in hits : i <= j

\* s.lastIndexOf(needle), 1-based; 0 when there is none
LastIndexOf(s, needle) ==
    LET hits == {i \in 1..(Len(s) - Len(needle) + 1) :
                    SubSeq(s, i, i + Len(needle) - 1) = needle}
    IN IF hits = {} THEN 0 ELSE CHOOSE i \in hits : \A j \in hits : i >= j

\* the position of the first character at or after i that is no white space
RECURSIVE SkipSpaces(_, _)
SkipSpaces(s, i) ==
    IF i <= Len(s) /\ CharAt(s, i) = " " THEN SkipSpaces(s, i + 1) ELSE i

\* the fence of a code block: three grave accents, written as three
\* apostrophes here (a string of the model cannot hold a grave accent)
Fence == "'''"

\* content.match(/<fence>(?:json)?\s*([\s\S]*?)<fence>/): the whole match and the
\* captured group, or Null
matchFence(content) ==
    LET open == IndexOf(content, Fence, 1)
        afterOpen == open + Len(Fence)
        afterJson == IF /\ afterOpen + 3 <= Len(content)
                        /\ SubSeq(content, afterOpen, afterOpen + 3) = "json"
                     THEN afterOpen + 4 ELSE afterOpen
        close == IndexOf(content, Fence, afterJson)
    IN IF open = 0 \/ close = 0 THEN Null
       ELSE [whole |-> SubSeq(content, open, close + Len(Fence) - 1),
             group |-> SubSeq(content, SkipSpaces(content, afterJson), close - 1)]

\* content.match(/(\{[\s\S]*\})/): from the first { to the last }
matchBraces(content) ==
    LET open == IndexOf(content, "{", 1)
        close == LastIndexOf(content, "}")
    IN IF open = 0 \/ close < open THEN Null
       ELSE [whole |-> SubSeq(content, open, close),
             group |-> SubSeq(content, open, close)]

\* jsonMatch[1] || jsonMatch[0], or NullStr when neither pattern matches
extractJson(content) ==
    LET jsonMatch == IF matchFence(content) # Null THEN matchFence(content)
                     ELSE matchBraces(content)
    IN IF jsonMatch = Null THEN NullStr
       ELSE IF jsonMatch.group # "" THEN jsonMatch.group ELSE jsonMatch.whole

\* JSON texts an LLM may answer with
ClearJson ==
    "{\"title\":\"Reuniao com Joao\",\"start_date\":\"2026-02-25\",\"start_time\":\"14:30\",\"end_time\":null,\"duration_minutes\":60,\"all_day\":false,\"participants\":[],\"description\":null,\"location\":null,\"ambiguities\":[],\"confidence\":0.95}"

VagueJson ==
    "{\"title\":\"Reuniao\",\"start_date\":\"2026-02-25\",\"start_time\":null,\"end_time\":null,\"duration_minutes\":null,\"all_day\":false,\"participants\":[],\"description\":null,\"location\":null,\"ambiguities\":[\"hora vaga\"],\"confidence\":0.8}"

UnsureJson ==
    "{\"title\":\"Joao\",\"start_date\":null,\"start_time\":null,\"end_time\":null,\"duration_minutes\":null,\"all_day\":false,\"participants\":[],\"description\":null,\"location\":null,\"ambiguities\":[],\"confidence\":0.4}"

\* an event of no length: duration_minutes is 0
ZeroDurationJson ==
    "{\"title\":\"Lembrete\",\"start_date\":\"2026-02-25\",\"start_time\":\"14:30\",\"end_time\":null,\"duration_minutes\":0,\"all_day\":false,\"participants\":[],\"description\":null,\"location\":null,\"ambiguities\":[],\"confidence\":0.95}"

\* an LLMParserResponse; confidence in hundredths
LLMResponse(title, start_date, start_time, duration, ambiguities, confidence) ==
    [title |-> title, start_date |-> start_date, start_time |-> start_time,
     end_time |-> NullStr, duration_minutes |-> duration, all_day |-> FALSE,
     participants |-> << >>, description |-> NullStr, location |-> NullStr,
     ambiguities |-> ambiguities, confidence |-> confidence]

\* JSON.parse(text) for the texts of the model: the value with its typeof,
\* or a SyntaxError
JSONParse(text) ==
    LET t == Trim(text) IN
    CASE t = ClearJson ->
           [threw |-> FALSE, type |-> "object",
            value |-> LLMResponse("Reuniao com Joao", "2026-02-25", "14:30", 60, << >>, 95)]
      [] t = VagueJson ->
           [threw |-> FALSE, type |-> "object",
            value |-> LLMResponse("Reuniao", "2026-02-25", NullStr, NullNum,
                                  <<"hora vaga">>, 80)]
      [] t = UnsureJson ->
           [threw |-> FALSE, type |-> "object",
            value |-> LLMResponse("Joao", NullStr, NullStr, NullNum, << >>, 40)]
      [] t = ZeroDurationJson ->
           [threw |-> FALSE, type |-> "object",
            value |-> LLMResponse("Lembrete", "2026-02-25", "14:30", 0, << >>, 95)]
      [] t = "null" -> [threw |-> FALSE, type |-> "object", value |-> Null]
      [] t = "5" -> [threw |-> FALSE, type |-> "number", value |-> Null]
      [] t = "\"ok\"" -> [threw |-> FALSE, type |-> "string", value |-> Null]
      [] OTHER -> [threw |-> TRUE, type |-> "undefined", value |-> Null]

\* a rejected promise with its Error message
Rejected(message) == [threw |-> TRUE, message |-> message, value |-> Null, type |-> "undefined"]

\* callLLMParser: the API key, the HTTP exchange, the content of the first
\* choice, the JSON in it
callLLMParser(llm) ==
    IF ~llm.key THEN Rejected("OPENROUTER_API_KEY not set")
    ELSE IF llm.fetch = "network_error" THEN Rejected("fetch failed")
    ELSE IF llm.fetch = "http_error"
         THEN Rejected("OpenRouter API error: 500 " \o llm.content)
    ELSE IF llm.fetch = "no_choices"
         THEN Rejected("Cannot read properties of undefined (reading '0')")
    ELSE IF llm.content = "" THEN Rejected("Empty response from LLM")
    ELSE IF extractJson(llm.content) = NullStr
         THEN Rejected("Could not extract JSON from LLM response: " \o llm.content)
    ELSE IF JSONParse(extractJson(llm.content)).threw
         THEN Rejected("Unexpected token in JSON")
    ELSE [threw |-> FALSE, message |-> "",
          value |-> JSONParse(extractJson(llm.content)).value,
          type |-> JSONParse(extractJson(llm.content)).type]

\* determineStatus
determineStatus(parsed) ==
    IF parsed.ambiguities # << >> THEN "ambiguous"
    ELSE IF parsed.confidence < 70 THEN "ambiguous"
    ELSE "success"

\* the candidate of the empty input and of the catch block
errorCandidate(input, ambiguity) ==
    [status |-> "error", confidence |-> 0, title |-> NullStr, start_date |-> NullStr,
     start_time |-> NullStr, end_time |-> NullStr, duration_minutes |-> NullNum,
     all_day |-> FALSE, participants |-> << >>, description |-> NullStr,
     location |-> NullStr, ambiguities |-> <<ambiguity>>, raw_input |-> input]

\* x || null on a string-or-null value
OrNull(v) == IF Truthy(v) THEN v ELSE NullStr

\* the candidate built from the answer of the LLM
parsedCandidate(input, parsed) ==
    [status |-> determineStatus(parsed),
     confidence |-> parsed.confidence,
     title |-> OrNull(parsed.title),
     start_date |-> OrNull(parsed.start_date),
     start_time |-> OrNull(parsed.start_time),
     end_time |-> OrNull(parsed.end_time),
     duration_minutes |-> IF parsed.duration_minutes = 0 THEN NullNum
                          ELSE parsed.duration_minutes,
     all_day |-> parsed.all_day,
     participants |-> parsed.participants,
     description |-> OrNull(parsed.description),
     location |-> OrNull(parsed.location),
     ambiguities |-> parsed.ambiguities,
     raw_input |-> input]

\* parseEventFromInput without its catch block
parseEventFromInput_noCatch(input, llm) ==
    IF Len(Trim(input)) = 0
    THEN [rejected |-> FALSE, called |-> FALSE,
          candidate |-> errorCandidate(input, "Input vazio")]
    ELSE IF callLLMParser(llm).threw \/ callLLMParser(llm).value = Null
            \/ callLLMParser(llm).type # "object"
    THEN [rejected |-> TRUE, called |-> TRUE, candidate |-> Null]
    ELSE [rejected |-> FALSE, called |-> TRUE,
          candidate |-> parsedCandidate(input, callLLMParser(llm).value)]

\* parseEventFromInput: whether the promise rejects, whether the LLM was
\* called, and the candidate
parseEventFromInput(input, llm) ==
    IF Len(Trim(input)) = 0
    THEN [rejected |-> FALSE, called |-> FALSE,
          candidate |-> errorCandidate(input, "Input vazio")]
    ELSE IF callLLMParser(llm).threw
    THEN [rejected |-> FALSE, called |-> TRUE,
          candidate |-> errorCandidate(input, "Parse error: " \o callLLMParser(llm).message)]
    ELSE IF callLLMParser(llm).value = Null \/ callLLMParser(llm).type # "object"
    THEN [rejected |-> FALSE, called |-> TRUE,
          candidate |-> errorCandidate(input, "Parse error: Invalid LLM response")]
    ELSE [rejected |-> FALSE, called |-> TRUE,
          candidate |-> parsedCandidate(input, callLLMParser(llm).value)]

\* the inputs of the parser
ParserInputs == {"", "   ", "Reuniao com Joao amanha as 14:30", "Joao"}

\* what the first choice of the LLM may hold: nothing, prose, braces around
\* no JSON, JSON values that are no object, an object alone, in prose, in a
\* fenced block, an empty fenced block
LlmContents ==
    {"", "Nao entendi o pedido.", "{titulo: reuniao}", "'''json 5 '''", "'''null'''",
     "''' \"ok\" '''", "''' '''",
     ClearJson, "Claro! " \o ClearJson \o " Pronto.", "'''json " \o ClearJson \o " '''",
     VagueJson, UnsureJson, ZeroDurationJson}

\* what the collaborator may do: the key is set or not, the exchange succeeds,
\* fails on the network, answers with an HTTP error or without choices
LlmOutcomes ==
    [key : BOOLEAN, fetch : {"ok", "network_error", "http_error", "no_choices"},
     content : LlmContents]

----------------------------------------------------------------------------
(* State machine *)

\* lastOp when the step just taken was no UndoStore call
Idle == [op |-> "none", h |-> NullStr, pre |-> Null, ret |-> Null]

\* lastUpdate when the step just taken handled no update and called no handler
NoUpdate == [kind |-> "none"]

\* conflictCall before any call
NoCall == [event |-> Null, queries |-> << >>,
           fetched |-> [threw |-> FALSE, events |-> << >>], result |-> Null]

\* validateCall before any call
NoValidation == [parsed |-> Null, today |-> Null, result |-> Null]

\* parseCall before any call
NoParse == [input |-> NullStr, llm |-> Null, result |-> Null]

\* gogCall before any call
NoGogCall == [request |-> Null, args |-> Null]

Init ==
    /\ now = 0
    /\ ticks = 0
    /\ store = << >>
    /\ timers = {}
    /\ consumed = [h \in Handles |-> 0]
    /\ adds = 0
    /\ lastOp = Idle
    /\ conflictCall = NoCall
    /\ validateCall = NoValidation
    /\ parseCall = NoParse
    /\ gogCall = NoGogCall
    /\ eventCache = << >>
    /\ previews = {}
    /\ updates = 0
    /\ lastUpdate = NoUpdate
    /\ created = << >>
    /\ createCalls = {}
    /\ expiryTimers = {}
    /\ deleteCalls = {}
    /\ lastUpdateId = 0
    /\ pollPc = "getUpdates"
    /\ pollBatch = << >>
    /\ pollCurrent = Null
    /\ telegram = << >>
    /\ running = 0
    /\ fetchedIds = {}
    /\ refetchedIds = {}
    /\ pollSent = {}

\* The clock advances
Tick ==
    /\ ticks < MaxTicks
    /\ \E d \in TickSteps : now' = now + d
    /\ ticks' = ticks + 1
    /\ lastOp' = Idle
    /\ lastUpdate' = NoUpdate
    /\ UNCHANGED <<pollVars, undoVars, conflictVars, validatorVars, parserVars, creatorVars, botVars, hostVars, updates>>

\* undoStore.add(h, state)
Add ==
    \E h \in Handles : \E state \in NewUndoStates(now) :
        /\ adds < MaxAdds
        /\ adds' = adds + 1
        /\ store' = MapSet(store, h, add_entry(state))
        /\ timers' = timers \cup {add_timer(h, now)}
        /\ consumed' = [consumed EXCEPT ![h] = 0]
        /\ lastOp' = [op |-> "add", h |-> h, pre |-> MapGet(store, h),
                      ret |-> Null]
        /\ lastUpdate' = NoUpdate
        /\ UNCHANGED <<pollVars, clockVars, conflictVars, validatorVars, parserVars, creatorVars, botVars, hostVars, updates>>

\* undoStore.consume(h)
Consume ==
    \E h \in Handles :
        LET r == consume(store, h, now) IN
        /\ store' = r.store
        /\ consumed' = [consumed EXCEPT ![h] = IF r.ret # Null THEN @ + 1 ELSE @]
        /\ lastOp' = [op |-> "consume", h |-> h, pre |-> MapGet(store, h),
                      ret |-> r.ret]
        /\ lastUpdate' = NoUpdate
        /\ UNCHANGED <<pollVars, clockVars, timers, adds, conflictVars, validatorVars, parserVars, creatorVars, botVars, hostVars, updates>>

\* undoStore.peek(h)
Peek ==
    \E h \in Handles :
        LET r == peek(store, h, now) IN
        /\ store' = r.store
        /\ lastOp' = [op |-> "peek", h |-> h, pre |-> MapGet(store, h),
                      ret |-> r.ret]
        /\ lastUpdate' = NoUpdate
        /\ UNCHANGED <<pollVars, clockVars, timers, consumed, adds, conflictVars, validatorVars, parserVars, creatorVars, botVars, hostVars, updates>>

\* undoStore.isAlive(h)
IsAlive ==
    \E h \in Handles : \E r \in {isAlive(store, h, now)} :
        /\ store' = r.store
        /\ lastOp' = [op |-> "isAlive", h |-> h, pre |-> MapGet(store, h),
                      ret |-> peek(store, h, now).ret, value |-> r.ret]
        /\ lastUpdate' = NoUpdate
        /\ UNCHANGED <<pollVars, clockVars, timers, consumed, adds, conflictVars, validatorVars, parserVars, creatorVars, botVars, hostVars, updates>>

\* undoStore.remainingSeconds(h)
RemainingSeconds ==
    \E h \in Handles : \E r \in {remainingSeconds(store, h, now)} :
        /\ store' = r.store
        /\ lastOp' = [op |-> "remainingSeconds", h |-> h, pre |-> MapGet(store, h),
                      ret |-> peek(store, h, now).ret, value |-> r.ret]
        /\ lastUpdate' = NoUpdate
        /\ UNCHANGED <<pollVars, clockVars, timers, consumed, adds, conflictVars, validatorVars, parserVars, creatorVars, botVars, hostVars, updates>>

\* The setTimeout callback of add(): this.store.delete(frontendEventId).
\* A timer never fires before its delay has elapsed; it may fire late.
EvictionTimer ==
    \E tm \in timers :
        /\ now >= tm.at
        /\ store' = MapDelete(store, tm.h)
        /\ timers' = timers \ {tm}
        /\ lastOp' = [op |-> "evict", h |-> tm.h, pre |-> MapGet(store, tm.h),
                      ret |-> Null]
        /\ lastUpdate' = NoUpdate
        /\ UNCHANGED <<pollVars, clockVars, consumed, adds, conflictVars, validatorVars, parserVars, creatorVars, botVars, hostVars, updates>>

NextUndo == Tick \/ Add \/ Consume \/ Peek \/ IsAlive \/ RemainingSeconds \/ EvictionTimer

SpecUndo == Init /\ [][NextUndo]_vars

\* Time passes until the earliest pending eviction timer is due
AwaitTimer ==
    \E tm \in timers :
        /\ \A other \in timers : tm.at <= other.at
        /\ now < tm.at
        /\ now' = tm.at
        /\ ticks' = ticks
        /\ lastOp' = Idle
        /\ lastUpdate' = NoUpdate
        /\ UNCHANGED <<pollVars, undoVars, conflictVars, validatorVars, parserVars, creatorVars, botVars, hostVars, updates>>

NextUndoLive == Add \/ Consume \/ Peek \/ AwaitTimer \/ EvictionTimer

\* The process stays up: time goes on, and the event loop runs the callback
\* of every timer that is due
SpecUndoLive ==
    Init /\ [][NextUndoLive]_vars /\ WF_vars(AwaitTimer) /\ WF_vars(EvictionTimer)

\* checkCalendarConflicts(event, 'primary'), one call on each pair of inputs
CheckCalendarConflicts ==
    \E event \in NewEvents : \E fetched \in FetchOutcomes :
        /\ conflictCall = NoCall
        /\ conflictCall' = [event |-> event,
                            queries |-> checkCalendarConflicts_queries(event),
                            fetched |-> fetched,
                            result |-> checkCalendarConflicts(event, fetched)]
        /\ UNCHANGED <<pollVars, clockVars, undoVars, lastOp, validatorVars, parserVars, creatorVars, botVars, hostVars, updates, lastUpdate>>

NextConflict == CheckCalendarConflicts

SpecConflict == Init /\ [][NextConflict]_vars

\* validateParsedEvent(parsed), one call on each candidate and server day
ValidateParsedEvent ==
    \E today \in Todays : \E parsed \in Candidates(today) :
        /\ validateCall = NoValidation
        /\ validateCall' = [parsed |-> parsed, today |-> today,
                            result |-> validateParsedEvent(parsed, today)]
        /\ UNCHANGED <<pollVars, clockVars, undoVars, lastOp, conflictVars, parserVars, creatorVars, botVars,
                       hostVars, updates, lastUpdate>>

NextValidator == ValidateParsedEvent

SpecValidator == Init /\ [][NextValidator]_vars

\* parseEventFromInput(input), one call on each input and each behaviour of
\* the LLM collaborator
ParseEventFromInput ==
    \E input \in ParserInputs : \E llm \in LlmOutcomes :
        /\ parseCall = NoParse
        /\ parseCall' = [input |-> input, llm |-> llm,
                         result |-> parseEventFromInput(input, llm)]
        /\ UNCHANGED <<pollVars, clockVars, undoVars, lastOp, conflictVars, validatorVars, creatorVars,
                       botVars, hostVars, updates, lastUpdate>>

NextParser == ParseEventFromInput

SpecParser == Init /\ [][NextParser]_vars

\* createCalendarEvent(req) up to the run of gog: buildGogArgs(req), one call
\* on each validated event
BuildGogArgs ==
    \E event \in CreatorEvents : \E h \in Handles :
        LET req == [event |-> event, event_id |-> h,
                    calendar_id |-> DEFAULT_CALENDAR_ID, owner_email |-> OWNER_EMAIL]
        IN /\ gogCall = NoGogCall
           /\ gogCall' = [request |-> req, args |-> buildGogArgs(req)]
           /\ UNCHANGED <<pollVars, clockVars, undoVars, lastOp, conflictVars, validatorVars,
                          parserVars, botVars, hostVars, updates, lastUpdate>>

NextCreator == BuildGogArgs

SpecCreator == Init /\ [][NextCreator]_vars

----------------------------------------------------------------------------
(* The bot (handleUpdate) and the callers of the exported handlers *)

ALLOWED_CHAT_ID == "7131103597"

\* String(chatId) of the chats updates come from
Chats == {"7131103597", "5550001111"}

Texts == {"Reuniao com Joao amanha as 14:30", "   "}

\* milliseconds between the previous step and the arrival of an update
UpdateGaps == {0, 1000, UNDO_WINDOW_MS + 1}

\* what parseEventFromInput may give for an input (the LLM decides): a timed
\* event, an all-day event, an ambiguous request, a request without a title,
\* a parse error
ParsedResults(input) ==
    LET base == [status |-> "success", confidence |-> 95,
                 title |-> "Reuniao com Joao", start_date |-> "2026-02-25",
                 start_time |-> "14:30", end_time |-> NullStr,
                 duration_minutes |-> NullNum, all_day |-> FALSE,
                 participants |-> <<[name |-> "Joao", email |-> NullStr, resolved |-> FALSE]>>,
                 description |-> NullStr, location |-> NullStr,
                 ambiguities |-> << >>, raw_input |-> input]
    IN IF Trim(input) = ""
       THEN {[base EXCEPT !.status = "error", !.confidence = 0, !.title = NullStr,
                          !.start_date = NullStr, !.start_time = NullStr,
                          !.participants = << >>, !.ambiguities = <<"Input vazio">>]}
       ELSE
       {base,
        [base EXCEPT !.start_time = NullStr, !.all_day = TRUE],
        [base EXCEPT !.status = "ambiguous", !.start_time = NullStr,
                     !.ambiguities = <<"hora não específica: 'à noite'">>],
        [base EXCEPT !.title = NullStr],
        [base EXCEPT !.status = "error", !.confidence = 0, !.title = NullStr,
                     !.start_date = NullStr, !.start_time = NullStr,
                     !.participants = << >>,
                     !.ambiguities = <<"Parse error: Invalid LLM response">>]}

\* what the calendar query may give while the bot runs: nothing, or an event
\* over 14:00-15:00
BotFetchOutcomes ==
    {[threw |-> FALSE, events |-> << >>],
     [threw |-> FALSE, events |-> <<TimedCalendarEvent(<<"14:00", "15:00">>)>>]}

\* the events a caller may hand to handleConfirmation or createCalendarEvent
ConfirmableEvents ==
    {validateParsedEvent(p, Today).correctedEvent :
        p \in {q \in ParsedResults("Reuniao com Joao amanha as 14:30") :
                  validateParsedEvent(q, Today).valid}}

\* handleUpdate branches on the prefix of the callback data
callbackBranch(callbackData) ==
    IF StartsWith(callbackData, "confirm_") THEN "confirm"
    ELSE IF StartsWith(callbackData, "cancel_") THEN "cancel"
    ELSE IF StartsWith(callbackData, "edit_") THEN "edit"
    ELSE "none"

\* the callback data that may come in: of the buttons the bot sent (the
\* preview's, and the keyboards of previewer.ts and notifier.ts), and of any
\* other sender's buttons, among them data that names a key of the cache
CallbackData ==
    UNION {{"confirm_" \o p.preview_id, "cancel_" \o p.preview_id, "edit_" \o p.preview_id,
            "confirm:" \o p.preview_id} : p \in previews}
    \cup UNION {{"confirm_" \o k, "cancel_" \o k} : k \in DOMAIN eventCache}
    \cup {"undo:" \o h : h \in Handles}

\* handleUpdate answers every chat
isAllowedChat_anyChat(chatId) == TRUE

\* String(chatId) !== ALLOWED_CHAT_ID, negated
isAllowedChat(chatId) == chatId = ALLOWED_CHAT_ID

\* an update (a message or a button click) of a chat other than the allowed
\* one: handleUpdate logs and returns
IgnoredUpdate ==
    \E chat \in Chats : \E d \in UpdateGaps :
        /\ ~isAllowedChat(chat)
        /\ updates < MaxUpdates
        /\ updates' = updates + 1
        /\ now' = now + d
        /\ lastOp' = Idle
        /\ lastUpdate' = [kind |-> "ignored", chat |-> chat,
                          answers |-> << >>, sent |-> << >>,
                          confirmation |-> Null]
        /\ UNCHANGED <<pollVars, ticks, undoVars, conflictVars, validatorVars, parserVars, creatorVars, botVars, hostVars>>

\* update.message in the allowed chat
MessageUpdate ==
    \E chat \in Chats : \E text \in Texts : \E parsed \in ParsedResults(text) :
    \E fetched \in BotFetchOutcomes : \E random \in RandomSuffixes : \E d \in UpdateGaps :
        LET t == now + d
            msg == [chat_id |-> chat, user_id |-> chat, text |-> text,
                    voice |-> NullStr, message_id |-> ToString(updates + 1)]
            eventId == chat \o "_" \o DateNowString(t)
        IN /\ isAllowedChat(chat)
           /\ updates < MaxUpdates
           /\ \E r \in {handleTelegramInput(msg, parsed, fetched, t, random)} :
              /\ eventCache' = IF r.response.buttons # NoButtons
                               THEN MapSet(eventCache, eventId,
                                           [message |-> msg, timestamp |-> t])
                               ELSE eventCache
              /\ previews' = IF r.response.buttons # NoButtons
                             THEN previews \cup
                                    {[preview_id |-> generateEventId(t, random),
                                      cache_key |-> eventId,
                                      event |-> ResponseField(r.response.text, "event")]}
                             ELSE previews
              /\ lastUpdate' = [kind |-> "message", chat |-> chat, msg |-> msg,
                                parsed |-> parsed,
                                conflict_check |-> r.conflict_check,
                                sent |-> <<r.response>>,
                                cached_key |-> IF r.response.buttons # NoButtons
                                               THEN eventId ELSE NullStr,
                                confirmation |-> Null]
           /\ updates' = updates + 1
           /\ now' = t
           /\ lastOp' = Idle
           /\ UNCHANGED <<pollVars, ticks, undoVars, conflictVars, validatorVars, parserVars, creatorVars, hostVars>>

\* update.callback_query in the allowed chat whose data starts with confirm_
ConfirmCallback ==
    \E chat \in Chats : \E data \in CallbackData : \E d \in UpdateGaps :
        LET t == now + d
            eventId == DropPrefix(data, "confirm_")
            cached == MapGet(eventCache, eventId)
        IN /\ isAllowedChat(chat)
           /\ updates < MaxUpdates
           /\ callbackBranch(data) = "confirm"
           /\ updates' = updates + 1
           /\ now' = t
           /\ lastOp' = Idle
           /\ IF cached = Null
              THEN /\ lastUpdate' = [kind |-> "confirm", chat |-> chat, id |-> eventId,
                                     cached |-> Null,
                                     answers |-> <<"Preview expirou. Envie o evento novamente.">>,
                                     sent |-> <<Response(chat, [kind |-> "expired",
                                                 body |-> "Preview expirou. Por favor, envie o evento novamente."],
                                                 NoButtons)>>,
                                     confirmation |-> Null]
                   /\ UNCHANGED <<pollVars, botVars, hostVars, undoVars>>
              ELSE \E parsed \in ParsedResults(cached.message.text) :
                   \E random \in RandomSuffixes : \E fetched \in BotFetchOutcomes :
                   \E gog \in GogOutcomes :
                   \* const { parsed } = await handleTelegramInput(cached.message)
                   \E event \in {ResponseField(
                                    handleTelegramInput(cached.message, parsed, fetched,
                                                        t, random).response,
                                    "parsed")} :
                   \E c \in {handleConfirmation(chat, eventId, event, gog, t)} :
                      /\ eventCache' = MapDelete(eventCache, eventId)
                      /\ createCalls' = IF c.call # Null /\ c.call.executed
                                        THEN createCalls \cup {c.call} ELSE createCalls
                      /\ store' = IF c.undo # Null
                                  THEN MapSet(store, eventId, add_entry(c.undo)) ELSE store
                      /\ timers' = IF c.undo # Null
                                   THEN timers \cup {add_timer(eventId, t)} ELSE timers
                      /\ lastUpdate' = [kind |-> "confirm", chat |-> chat, id |-> eventId,
                                        cached |-> cached,
                                        answers |-> <<"Criando evento...">>,
                                        sent |-> <<c.response>>,
                                        confirmation |-> [event_id |-> eventId, event |-> event,
                                                          call |-> c.call, result |-> c.result]]
                      /\ UNCHANGED <<pollVars, previews, created, expiryTimers, deleteCalls, consumed, adds>>
           /\ UNCHANGED <<pollVars, ticks, conflictVars, validatorVars, parserVars, creatorVars>>

\* update.callback_query in the allowed chat whose data starts with cancel_
CancelCallback ==
    \E chat \in Chats : \E data \in CallbackData : \E d \in UpdateGaps :
        LET eventId == DropPrefix(data, "cancel_") IN
        /\ isAllowedChat(chat)
        /\ updates < MaxUpdates
        /\ callbackBranch(data) = "cancel"
        /\ updates' = updates + 1
        /\ now' = now + d
        /\ lastOp' = Idle
        /\ eventCache' = MapDelete(eventCache, eventId)
        /\ lastUpdate' = [kind |-> "cancel", chat |-> chat, id |-> eventId,
                          answers |-> <<"Cancelado">>,
                          sent |-> <<handleCancellation(chat, eventId)>>,
                          confirmation |-> Null]
        /\ UNCHANGED <<pollVars, ticks, undoVars, conflictVars, validatorVars, parserVars, creatorVars, previews, hostVars>>

\* update.callback_query in the allowed chat whose data starts with edit_
EditCallback ==
    \E chat \in Chats : \E data \in CallbackData : \E d \in UpdateGaps :
        /\ isAllowedChat(chat)
        /\ updates < MaxUpdates
        /\ callbackBranch(data) = "edit"
        /\ updates' = updates + 1
        /\ now' = now + d
        /\ lastOp' = Idle
        /\ lastUpdate' = [kind |-> "edit", chat |-> chat,
                          id |-> DropPrefix(data, "edit_"),
                          answers |-> <<"Editar ainda não implementado">>,
                          sent |-> <<Response(chat, [kind |-> "not_implemented",
                                      body |-> "Editar ainda não implementado. Envie um novo comando."],
                                      NoButtons)>>,
                          confirmation |-> Null]
        /\ UNCHANGED <<pollVars, ticks, undoVars, conflictVars, validatorVars, parserVars, creatorVars, botVars, hostVars>>

\* update.callback_query in the allowed chat whose data starts with none of
\* the three prefixes: no branch of handleUpdate is taken
OtherCallback ==
    \E chat \in Chats : \E data \in CallbackData : \E d \in UpdateGaps :
        /\ isAllowedChat(chat)
        /\ updates < MaxUpdates
        /\ callbackBranch(data) = "none"
        /\ updates' = updates + 1
        /\ now' = now + d
        /\ lastOp' = Idle
        /\ lastUpdate' = [kind |-> "other", chat |-> chat, data |-> data,
                          answers |-> << >>, sent |-> << >>,
                          consumed |-> Null, deleted |-> {},
                          confirmation |-> Null]
        /\ UNCHANGED <<pollVars, ticks, undoVars, conflictVars, validatorVars, parserVars, creatorVars, botVars, hostVars>>

NextBot ==
    \/ IgnoredUpdate \/ MessageUpdate \/ ConfirmCallback
    \/ CancelCallback \/ EditCallback \/ OtherCallback

SpecBot == Init /\ [][NextBot]_vars

\* A caller invokes the exported handleConfirmation(chat_id, event_id, event)
\* with a validated event
HandleConfirmation ==
    \E h \in Handles : \E event \in ConfirmableEvents : \E gog \in GogOutcomes :
        \E c \in {handleConfirmation(ALLOWED_CHAT_ID, h, event, gog, now)} :
        /\ updates < MaxUpdates
        /\ updates' = updates + 1
        /\ createCalls' = IF c.call # Null /\ c.call.executed
                          THEN createCalls \cup {c.call} ELSE createCalls
        /\ store' = IF c.undo # Null THEN MapSet(store, h, add_entry(c.undo)) ELSE store
        /\ timers' = IF c.undo # Null THEN timers \cup {add_timer(h, now)} ELSE timers
        /\ lastUpdate' = [kind |-> "confirmation", id |-> h, pre |-> MapGet(store, h),
                          sent |-> <<c.response>>,
                          confirmation |-> [event_id |-> h, event |-> event,
                                            call |-> c.call, result |-> c.result]]
        /\ lastOp' = Idle
        /\ UNCHANGED <<pollVars, clockVars, consumed, adds, conflictVars, validatorVars, parserVars, creatorVars, botVars,
                       created, expiryTimers, deleteCalls>>

\* A caller invokes createCalendarEvent(req) and keeps the result
CreateCalendarEvent ==
    \E h \in Handles : \E event \in ConfirmableEvents : \E gog \in GogOutcomes :
        LET req == [event |-> event, event_id |-> h,
                    calendar_id |-> DEFAULT_CALENDAR_ID, owner_email |-> OWNER_EMAIL]
        IN \E c \in {createCalendarEvent(req, gog, now)} :
           /\ updates < MaxUpdates
           /\ updates' = updates + 1
           /\ createCalls' = IF c.executed
                             THEN createCalls \cup {[request |-> req, executed |-> TRUE,
                                                     backend_id |-> c.backend_id]}
                             ELSE createCalls
           /\ created' = IF c.threw THEN created ELSE MapSet(created, h, c.result)
           /\ lastUpdate' = [kind |-> "create", id |-> h, threw |-> c.threw,
                             result |-> c.result]
           /\ lastOp' = Idle
           /\ UNCHANGED <<pollVars, clockVars, undoVars, conflictVars, validatorVars, parserVars, creatorVars, botVars,
                          expiryTimers, deleteCalls>>

\* A caller invokes registerUndoWithExpiry(h, result, onExpiry) with the
\* result of a creation
RegisterUndoWithExpiry ==
    \E h \in DOMAIN created :
        /\ adds < MaxAdds
        /\ adds' = adds + 1
        /\ store' = MapSet(store, h, add_entry(registerUndoWithExpiry_state(created[h])))
        /\ timers' = timers \cup {add_timer(h, now)}
        /\ expiryTimers' = expiryTimers \cup {registerUndoWithExpiry_timer(h, created[h], now)}
        /\ consumed' = [consumed EXCEPT ![h] = 0]
        /\ lastOp' = [op |-> "add", h |-> h, pre |-> MapGet(store, h), ret |-> Null]
        /\ lastUpdate' = [kind |-> "register", id |-> h]
        /\ UNCHANGED <<pollVars, clockVars, conflictVars, validatorVars, parserVars, creatorVars, botVars, updates,
                       created, createCalls, deleteCalls>>

\* The setTimeout callback of registerUndoWithExpiry: onExpiry(result.event_link)
ExpiryTimer ==
    \E tm \in expiryTimers :
        /\ now >= tm.at
        /\ expiryTimers' = expiryTimers \ {tm}
        /\ lastUpdate' = [kind |-> "expiry", id |-> tm.h, event_link |-> tm.event_link]
        /\ lastOp' = Idle
        /\ UNCHANGED <<pollVars, clockVars, undoVars, conflictVars, validatorVars, parserVars, creatorVars, botVars, updates,
                       created, createCalls, deleteCalls>>

\* the exported handlers called directly, and the bot's answer to the buttons
\* of the confirmation message
NextPipeline ==
    HandleConfirmation \/ CreateCalendarEvent \/ RegisterUndoWithExpiry \/ OtherCallback

SpecPipeline == Init /\ [][NextPipeline]_vars

\* the undo window of a created event: the registration, the user's undo
\* (undoStore.consume), the clock and the two timers
----------------------------------------------------------------------------
(* bot.ts: the polling loop *)

\* the updates Telegram delivers: a message or a button click in the allowed
\* chat, handled without an error or with a call inside the try block that
\* throws (parser, calendar, send); one of another chat; one without a chat
PollUpdateKinds ==
    {[chat |-> c, fails |-> f] : c \in Chats, f \in BOOLEAN}
      \cup {[chat |-> NullStr, fails |-> FALSE]}

\* offset of a request that asks again for the newest update it has seen
getUpdates_offset_lastSeen(id) == id

\* `offset=${lastUpdateId + 1}`
getUpdates_offset(id) == id + 1

\* getUpdates(): data.result of Telegram, the updates from the offset on, or
\* [] when the request failed or the answer was not ok
getUpdates(held, id, ok) ==
    IF ~ok THEN << >>
    ELSE SelectSeq(held, LAMBDA u : u.update_id >= getUpdates_offset(id))

ProcessingError == "Erro ao processar. Tente novamente."

\* handleUpdate(update): whether its promise is rejected, and the messages
\* it sent. An error thrown inside the try block is caught and reported to
\* the chat.
handleUpdate_settled(update) ==
    IF update.chat = NullStr THEN [rejected |-> FALSE, sent |-> {}]
    ELSE IF ~isAllowedChat(update.chat) THEN [rejected |-> FALSE, sent |-> {}]
    ELSE IF update.fails THEN [rejected |-> FALSE, sent |-> {ProcessingError}]
    ELSE [rejected |-> FALSE, sent |-> {"reply"}]

\* Math.max(lastUpdateId, update.update_id)
MathMax(a, b) == IF a >= b THEN a ELSE b

otherVars ==
    <<clockVars, undoVars, lastOp, conflictVars, validatorVars, parserVars, creatorVars,
      botVars, hostVars, updates, lastUpdate>>

\* Telegram receives an update for the bot
TelegramUpdate ==
    \E kind \in PollUpdateKinds :
        /\ Len(telegram) < MaxUpdates
        /\ telegram' = Append(telegram, [update_id |-> Len(telegram) + 1,
                                         chat |-> kind.chat, fails |-> kind.fails])
        /\ UNCHANGED <<lastUpdateId, pollPc, pollBatch, pollCurrent, running, fetchedIds,
                       refetchedIds, pollSent, otherVars>>

\* poll(): const updates = await getUpdates()
PollGetUpdates ==
    \E ok \in BOOLEAN :
        LET fetched == getUpdates(telegram, lastUpdateId, ok)
            ids == {fetched[i].update_id : i \in 1..Len(fetched)}
        IN /\ pollPc = "getUpdates"
           /\ pollBatch' = fetched
           /\ fetchedIds' = fetchedIds \cup ids
           /\ refetchedIds' = refetchedIds \cup (ids \cap fetchedIds)
           /\ pollPc' = IF fetched = << >> THEN "delay" ELSE "for"
           /\ UNCHANGED <<lastUpdateId, pollCurrent, telegram, running, pollSent, otherVars>>

\* poll(): the for loop takes the next update of the batch, sets
\* lastUpdateId and calls handleUpdate; after the last one it polls again
PollFor ==
    /\ pollPc = "for"
    /\ IF pollBatch = << >>
       THEN /\ pollPc' = "getUpdates"
            /\ UNCHANGED <<lastUpdateId, pollBatch, pollCurrent, running>>
       ELSE /\ lastUpdateId' = MathMax(lastUpdateId, Head(pollBatch).update_id)
            /\ pollCurrent' = Head(pollBatch)
            /\ pollBatch' = Tail(pollBatch)
            /\ running' = running + 1
            /\ pollPc' = "await"
    /\ UNCHANGED <<telegram, fetchedIds, refetchedIds, pollSent, otherVars>>

\* poll(): the awaited handleUpdate call settles; a rejection leaves the for
\* loop for the catch block
PollAwait ==
    /\ pollPc = "await"
    /\ running' = running - 1
    /\ pollSent' = pollSent \cup {[update_id |-> pollCurrent.update_id, text |-> t] :
                                      t \in handleUpdate_settled(pollCurrent).sent}
    /\ pollCurrent' = Null
    /\ IF handleUpdate_settled(pollCurrent).rejected
       THEN pollPc' = "catch" /\ pollBatch' = << >>
       ELSE pollPc' = "for" /\ pollBatch' = pollBatch
    /\ UNCHANGED <<lastUpdateId, telegram, fetchedIds, refetchedIds, otherVars>>

\* poll(): the delay after an empty batch (1 s) or in the catch block (5 s)
\* is over
PollDelay ==
    /\ pollPc \in {"delay", "catch"}
    /\ pollPc' = "getUpdates"
    /\ UNCHANGED <<lastUpdateId, pollBatch, pollCurrent, telegram, running, fetchedIds,
                   refetchedIds, pollSent, otherVars>>

NextPoll == TelegramUpdate \/ PollGetUpdates \/ PollFor \/ PollAwait \/ PollDelay

SpecPoll == Init /\ [][NextPoll]_vars

NextExpiry ==
    \/ Tick \/ CreateCalendarEvent \/ RegisterUndoWithExpiry
    \/ Consume \/ ExpiryTimer \/ EvictionTimer

SpecExpiry == Init /\ [][NextExpiry]_vars

Next == NextUndo \/ NextConflict \/ NextValidator \/ NextParser \/ NextCreator \/ NextBot \/ NextPipeline \/ ExpiryTimer \/ AwaitTimer
          \/ NextPoll

Spec == Init /\ [][Next]_vars

----------------------------------------------------------------------------
(* Claims about the UndoStore, checked under SpecUndo *)

\* C1: consume is at-most-once. Between two consecutive add(H) calls at most
\* one consume(H) returns a record, and a consume that returned the record
\* leaves H absent, so that the next consume(H) returns null.
C1_ConsumeAtMostOnce ==
    /\ \A h \in Handles : consumed[h] <= 1
    /\ (lastOp.op = "consume" /\ lastOp.ret # Null) =>
          /\ lastOp.h \notin DOMAIN store
          /\ consume(store, lastOp.h, now).ret = Null

\* C1 witness: H was added, a first consume(H) returned the record and the
\* consume(H) just made, still inside the window, returned null.
C1_Witness ==
    \E h \in Handles :
        /\ consumed[h] = 1
        /\ lastOp.op = "consume" /\ lastOp.h = h
        /\ lastOp.pre = Null /\ lastOp.ret = Null
        /\ \E tm \in timers : tm.h = h /\ now <= tm.at - EVICTION_GRACE_MS

\* C2: consume respects the deadline. consume(H) returns the record exactly
\* when H is present and now <= undo_deadline = created_at + UNDO_WINDOW_MS;
\* strictly after the deadline it returns null although the entry was still
\* in the map; in every case H is absent from the store afterwards.
C2_ConsumeRespectsDeadline ==
    lastOp.op = "consume" =>
        /\ lastOp.h \notin DOMAIN store
        /\ lastOp.ret # Null <=>
              (lastOp.pre # Null /\ now <= lastOp.pre.created_at + UNDO_WINDOW_MS)
        /\ lastOp.ret # Null => lastOp.ret = lastOp.pre

\* C2 witness: consume(H) strictly after the deadline, while the entry was
\* still in the map and its eviction timer has not fired, returned null.
C2_Witness ==
    /\ lastOp.op = "consume"
    /\ lastOp.pre # Null
    /\ now > lastOp.pre.created_at + UNDO_WINDOW_MS
    /\ lastOp.ret = Null
    /\ \E tm \in timers : tm.h = lastOp.h /\ now < tm.at

----------------------------------------------------------------------------
(* Claims about the bot, checked under SpecBot *)

\* the update just handled took a branch of the allowed chat
Handled == lastUpdate.kind \in {"message", "confirm", "cancel", "edit", "other"}

\* C3: a confirm whose handle is that of a preview the bot sent, while the
\* attempt of that preview is still held pending, finds the attempt (it does
\* not get the "preview expired" answer).
C3_ConfirmFindsPendingAttempt ==
    (/\ lastUpdate.kind = "confirm"
     /\ \E p \in previews : /\ p.preview_id = lastUpdate.id
                            /\ p.cache_key \in DOMAIN eventCache)
        => lastUpdate.cached # Null

\* C4: the event handed to the creation on a confirm is exactly the
\* validated event of the attempt that was previewed.
C4_CreationGetsValidatedEvent ==
    (lastUpdate.kind = "confirm" /\ lastUpdate.confirmation # Null) =>
        \E p \in previews : /\ p.cache_key = lastUpdate.id
                            /\ lastUpdate.confirmation.event = p.event

\* C5: nothing is created without a confirmation. A message whose parse is
\* ambiguous or invalid ends with one message without buttons: no conflict
\* check is made, no attempt is cached, no handler of the creation is called.
\* The creation handler runs only for a confirm that found a cached attempt,
\* and an attempt is cached only with a preview of a valid event.
C5_NoCreationWithoutConfirmation ==
    /\ (/\ lastUpdate.kind = "message"
        /\ validateParsedEvent(lastUpdate.parsed, Today).status \in {"ambiguous", "invalid"})
          => /\ Len(lastUpdate.sent) = 1
             /\ lastUpdate.sent[1].buttons = NoButtons
             /\ lastUpdate.sent[1].text.kind \in {"clarify", "error", "prompt"}
             /\ lastUpdate.conflict_check = Null
             /\ lastUpdate.cached_key = NullStr
             /\ \A k \in DOMAIN eventCache : eventCache[k].message # lastUpdate.msg
             /\ \A p \in previews : p.cache_key \in DOMAIN eventCache
                                      => eventCache[p.cache_key].message # lastUpdate.msg
    /\ (Handled /\ lastUpdate.confirmation # Null)
          => /\ lastUpdate.kind = "confirm"
             /\ lastUpdate.cached # Null
             /\ \E p \in previews : p.cache_key = lastUpdate.id /\ p.event # Null
    /\ \A p \in previews : p.event # Null
    /\ \A call \in createCalls : \E p \in previews : p.cache_key = call.request.event_id

\* C5 witness: an ambiguous request was answered with a clarification
\* question, without buttons, and nothing is cached.
C5_Witness ==
    /\ lastUpdate.kind = "message"
    /\ validateParsedEvent(lastUpdate.parsed, Today).status = "ambiguous"
    /\ lastUpdate.sent[1].text.kind = "clarify"
    /\ lastUpdate.sent[1].buttons = NoButtons
    /\ eventCache = << >>

----------------------------------------------------------------------------
(* Claims about the confirmation and the undo, checked under SpecPipeline *)

\* C6: after a confirmation whose creation succeeded, the UndoStore holds,
\* under the attempt's handle, a record with the google event id, the
\* calendar id, the title and the creation time of the result.
C6_SuccessRegistersUndo ==
    (lastUpdate.kind = "confirmation" /\ lastUpdate.confirmation.result # Null) =>
        /\ lastUpdate.id \in DOMAIN store
        /\ store[lastUpdate.id].google_event_id = lastUpdate.confirmation.result.google_event_id
        /\ store[lastUpdate.id].calendar_id = lastUpdate.confirmation.result.calendar_id
        /\ store[lastUpdate.id].event_title = lastUpdate.confirmation.result.title
        /\ store[lastUpdate.id].created_at = lastUpdate.confirmation.result.created_at

\* C7: a confirmation whose creation failed registers nothing for undo (the
\* store holds for the handle what it held before: nothing, when it held
\* nothing) and answers with one error message.
C7_FailedCreationLeavesNoUndo ==
    (lastUpdate.kind = "confirmation" /\ lastUpdate.confirmation.result = Null) =>
        /\ MapGet(store, lastUpdate.id) = lastUpdate.pre
        /\ lastUpdate.pre = Null => lastUpdate.id \notin DOMAIN store
        /\ Len(lastUpdate.sent) = 1
        /\ lastUpdate.sent[1].chat_id = ALLOWED_CHAT_ID
        /\ lastUpdate.sent[1].text.kind = "create_error"
        /\ lastUpdate.sent[1].buttons = NoButtons

\* C7 witness: the gog command ran and failed; the handle has no undo record
\* and the answer is the error message.
C7_Witness ==
    /\ lastUpdate.kind = "confirmation"
    /\ lastUpdate.confirmation.result = Null
    /\ lastUpdate.confirmation.call # Null
    /\ lastUpdate.confirmation.call.executed
    /\ lastUpdate.confirmation.call.backend_id = NullStr
    /\ lastUpdate.id \notin DOMAIN store
    /\ lastUpdate.sent[1].text.kind = "create_error"

\* the update just handled was the undo button of the handle's message
UndoAction == lastUpdate.kind = "other" /\ StartsWith(lastUpdate.data, "undo:")

\* C8: an undo action deletes the calendar event exactly when consume gave
\* the record, and then deletes the event of that record; an undo action on
\* a handle whose record is inside its window consumes it, so that no live
\* record of the handle is left.
C8_UndoDeletesIffConsumed ==
    UndoAction =>
        LET h == DropPrefix(lastUpdate.data, "undo:") IN
        /\ (lastUpdate.deleted # {}) <=> (lastUpdate.consumed # Null)
        /\ lastUpdate.consumed # Null =>
              lastUpdate.deleted = {[calendar_id |-> lastUpdate.consumed.calendar_id,
                                     google_event_id |-> lastUpdate.consumed.google_event_id]}
        /\ ~(h \in DOMAIN store /\ now <= store[h].undo_deadline)

----------------------------------------------------------------------------
(* Claims about the conflict detector, checked under SpecConflict *)

\* the ParsedEvent the parser gives for a request that validates to `event`
ParsedOf(event) ==
    [status |-> "success", confidence |-> 95,
     title |-> event.title, start_date |-> event.start_date,
     start_time |-> event.start_time, end_time |-> event.end_time,
     duration_minutes |-> event.duration_minutes, all_day |-> event.all_day,
     participants |-> event.participants, description |-> event.description,
     location |-> event.location, ambiguities |-> << >>,
     raw_input |-> "Reuniao amanha"]

\* the listing could not be had or could not be processed
DetectorFailed ==
    \/ conflictCall.fetched.threw
    \/ /\ ~conflictCall.event.all_day
       /\ \E i \in 1..Len(conflictCall.fetched.events) :
             conflictCall.fetched.events[i].start = Null

\* C9: checkCalendarConflicts never throws. When the calendar query fails or
\* the listing cannot be processed it gives "no conflicts", and the pipeline
\* goes on to the preview, with its buttons, showing what the check gave.
C9_ConflictCheckFailsOpen ==
    conflictCall.event # Null =>
        /\ conflictCall.result # Throw
        /\ conflictCall.result.has_conflicts = (Len(conflictCall.result.conflicts) > 0)
        /\ DetectorFailed => conflictCall.result = NoConflicts
        /\ LET response == handleTelegramInput(
                                [chat_id |-> "7131103597", user_id |-> "7131103597",
                                 text |-> "Reuniao amanha", voice |-> NullStr,
                                 message_id |-> "1"],
                                ParsedOf(conflictCall.event), conflictCall.fetched,
                                now, "AB12CD")
           IN /\ response.conflict_check = conflictCall.result
              /\ response.response.buttons = PreviewButtons(generateEventId(now, "AB12CD"))
              /\ response.response.text.kind = "preview"
              /\ response.response.text.event = conflictCall.event
              /\ response.response.text.conflicts = conflictCall.result.conflicts

\* C9 witness: the calendar query failed for a timed event and the check
\* gave "no conflicts".
C9_Witness ==
    /\ conflictCall.event # Null
    /\ ~conflictCall.event.all_day
    /\ conflictCall.fetched.threw
    /\ conflictCall.result = NoConflicts

\* minutes since midnight of an "HH:MM" value, read digit by digit
Minutes(hhmm) ==
    (DigitValue(CharAt(hhmm, 1)) * 10 + DigitValue(CharAt(hhmm, 2))) * 60
      + DigitValue(CharAt(hhmm, 4)) * 10 + DigitValue(CharAt(hhmm, 5))

\* the calendar event is a timed one: both dateTime values present
IsTimed(evt) ==
    evt.start # Null /\ evt.end # Null
      /\ evt.start.dateTime # NullStr /\ evt.end.dateTime # NullStr

\* "HH:MM" at characters 12..16 of an RFC3339 dateTime
ClockOf(dateTime) == SubSeq(dateTime, 12, 16)

ReportedIn(result, id) ==
    \E k \in 1..Len(result.conflicts) : result.conflicts[k].calendar_event_id = id

\* the end of the new event's interval: its end time, else start + duration
NewEnd(event) ==
    IF event.end_time # NullStr THEN Minutes(event.end_time)
    ELSE Minutes(event.start_time)
           + (IF event.duration_minutes = NullNum THEN 0 ELSE event.duration_minutes)

\* the call was made on a timed new event and the listing was processed
\* to the end
DetectorCompared ==
    /\ conflictCall.event # Null
    /\ ~conflictCall.event.all_day
    /\ ~conflictCall.fetched.threw
    /\ \A i \in 1..Len(conflictCall.fetched.events) :
          conflictCall.fetched.events[i].start # Null

\* the verdict with the roles of the two intervals exchanged
SwappedVerdict(event, evt) ==
    checkCalendarConflicts(
        TimedEvent(ClockOf(evt.start.dateTime), ClockOf(evt.end.dateTime), NullNum),
        [threw |-> FALSE,
         events |-> <<[id |-> "evt-swapped", title |-> event.title,
                       start |-> [dateTime |-> RFC3339(event.start_date, event.start_time),
                                  date |-> NullStr],
                       end |-> [dateTime |-> RFC3339(event.start_date, event.end_time),
                                date |-> NullStr]]>>]).has_conflicts

\* C10: a timed existing event [s2, e2) is reported as a conflict of the new
\* event [s1, e1) exactly when s1 < e2 and s2 < e1; the verdict is the same
\* with the two intervals exchanged; intervals that touch at an endpoint or
\* are one minute apart are not conflicts, an interval inside another is.
C10_OverlapIsStrict ==
    DetectorCompared =>
        LET event == conflictCall.event
            s1 == Minutes(event.start_time)
            e1 == NewEnd(event)
        IN \A i \in 1..Len(conflictCall.fetched.events) :
              LET evt == conflictCall.fetched.events[i] IN
              IsTimed(evt) =>
                LET s2 == Minutes(ClockOf(evt.start.dateTime))
                    e2 == Minutes(ClockOf(evt.end.dateTime))
                    reported == ReportedIn(conflictCall.result, evt.id)
                IN /\ reported <=> (s1 < e2 /\ s2 < e1)
                   /\ (e1 = s2 \/ e2 = s1) => ~reported
                   /\ (e1 + 1 = s2 \/ e2 + 1 = s1) => ~reported
                   /\ (s2 <= s1 /\ e1 <= e2 /\ s1 < e1) => reported
                   /\ (s1 <= s2 /\ e2 <= e1 /\ s2 < e2) => reported
                   /\ event.end_time # NullStr => (SwappedVerdict(event, evt) <=> reported)

\* C10 witness: the new event 15:00-16:00 against 14:00-15:00, which it
\* touches, and 15:00-16:00, which it equals: only the second is reported.
C10_Witness ==
    /\ DetectorCompared
    /\ conflictCall.event.start_time = "15:00" /\ conflictCall.event.end_time = "16:00"
    /\ Len(conflictCall.fetched.events) = 2
    /\ conflictCall.fetched.events[1].id = "evt-14:00"
    /\ conflictCall.fetched.events[2].id = "evt-15:00"
    /\ conflictCall.result.has_conflicts
    /\ Len(conflictCall.result.conflicts) = 1
    /\ conflictCall.result.conflicts[1].calendar_event_id = "evt-15:00"

\* C11: an all-day event never reports conflicts: whatever the calendar holds
\* on that day (timed events, all-day events, none) and whether or not the
\* query failed, checkCalendarConflicts gives has_conflicts = false and an
\* empty list.
C11_AllDayNeverConflicts ==
    (conflictCall # NoCall /\ conflictCall.event.all_day)
        => /\ conflictCall.result.has_conflicts = FALSE
           /\ conflictCall.result.conflicts = << >>

\* an all-day event was checked against a day that holds a timed event
C11_Witness ==
    /\ conflictCall # NoCall
    /\ conflictCall.event.all_day
    /\ ~conflictCall.fetched.threw
    /\ \E i \in 1..Len(conflictCall.fetched.events) : IsTimed(conflictCall.fetched.events[i])
    /\ conflictCall.result.has_conflicts = FALSE


----------------------------------------------------------------------------
(* Claims about the validator, checked under SpecValidator *)

\* a validateParsedEvent call was made
Validated == validateCall # NoValidation

\* the members of a list
Members(seq) == {seq[i] : i \in 1..Len(seq)}

\* a string without a character other than the space
Blank(str) == \A i \in 1..Len(str) : CharAt(str, i) = " "

\* the candidate went through steps 3 to 6
FieldsChecked ==
    /\ Validated
    /\ validateCall.parsed.status # "error"
    /\ validateCall.parsed.ambiguities = << >>

\* C12: a candidate of status error is Invalid; its errors are the first
\* ambiguity text, or the fixed fallback when it has none; there are no
\* warnings, no clarification prompt and no event, whatever the other fields.
C12_ErrorStatusIsInvalid ==
    (Validated /\ validateCall.parsed.status = "error")
        => LET a == validateCall.parsed.ambiguities
               first == IF Len(a) > 0 /\ a[1] # "" THEN a[1]
                        ELSE "Erro ao fazer parse do texto"
           IN validateCall.result =
                 [valid |-> FALSE, status |-> "invalid", errors |-> <<first>>,
                  warnings |-> << >>, clarificationRequest |-> NullStr,
                  correctedEvent |-> Null]

\* an error candidate whose other fields are all good, with an ambiguity text
C12_Witness ==
    /\ Validated
    /\ validateCall.parsed.status = "error"
    /\ validateCall.parsed = [BaseCandidate(validateCall.today)
                                 EXCEPT !.status = "error", !.ambiguities = <<"Input vazio">>]
    /\ validateCall.result.errors = <<"Input vazio">>

\* the ambiguity texts of the inputs that contain "data inválida" or
\* "invalid date" in any letter case
InvalidDateTags ==
    {"Data inválida: 30/02", "INVALID DATE 31/04", "data inválida: 30/02", "Invalid date"}

IsInvalidDateTag(a) == a \in InvalidDateTags

\* C13: a candidate that is no error and has ambiguities is never Valid. With
\* an entry about an invalid date (in any letter case) it is Invalid and its
\* errors are exactly those entries; otherwise it is Ambiguous, with no
\* errors and a non-empty clarification prompt.
C13_AmbiguitiesBlock ==
    (Validated /\ validateCall.parsed.status # "error"
               /\ validateCall.parsed.ambiguities # << >>)
        => LET a == validateCall.parsed.ambiguities
               r == validateCall.result
           IN /\ ~r.valid
              /\ r.correctedEvent = Null
              /\ IF \E i \in 1..Len(a) : IsInvalidDateTag(a[i])
                 THEN /\ r.status = "invalid"
                      /\ r.errors = SelectSeq(a, IsInvalidDateTag)
                 ELSE /\ r.status = "ambiguous"
                      /\ r.errors = << >>
                      /\ r.clarificationRequest # NullStr
                      /\ Len(r.clarificationRequest) > 0

\* a candidate with good fields, a vague-time entry and two invalid-date
\* entries, one of them capitalised
C13_Witness ==
    /\ Validated
    /\ validateCall.parsed.status = "success"
    /\ validateCall.parsed.title = "Reuniao com Joao"
    /\ Len(validateCall.parsed.ambiguities) = 3
    /\ validateCall.result.status = "invalid"
    /\ validateCall.result.errors = <<"data inválida: 30/02", "Invalid date">>

\* C14: for a candidate that is no error and has no ambiguities, the errors
\* hold title_missing iff the title is absent or blank, date_missing iff the
\* start date is absent, time_missing iff the event is not all-day and has no
\* start time; the format and consistency errors are reported along with
\* them; the result is Invalid iff there is at least one error.
C14_RequiredFieldsAccumulate ==
    FieldsChecked
        => LET p == validateCall.parsed
               r == validateCall.result
               errs == Members(r.errors)
           IN /\ ("title_missing" \in errs) <=> (p.title = NullStr \/ Blank(p.title))
              /\ ("date_missing" \in errs) <=> (p.start_date = NullStr)
              /\ ("time_missing" \in errs) <=> (~p.all_day /\ p.start_time = NullStr)
              /\ ("title_length_invalid" \in errs)
                    <=> (p.title # NullStr /\ Len(p.title) > 100)
              /\ ("date_format_invalid" \in errs) <=> (p.start_date \in OtherDates \ {"2028-02-29"})
              /\ ("time_format_invalid" \in errs) <=> (p.start_time \in OtherTimes \cup {"25:00"})
              /\ ("end_time_format_invalid" \in errs) <=> (p.end_time \in OtherTimes)
              /\ r.valid <=> (r.errors = << >>)
              /\ r.status = (IF r.errors = << >> THEN "valid" ELSE "invalid")
              /\ (r.correctedEvent = Null) <=> (r.errors # << >>)

\* a candidate without a title, a date or a time: all three are reported
C14_Witness ==
    /\ FieldsChecked
    /\ validateCall.parsed.title = NullStr
    /\ validateCall.parsed.start_date = NullStr
    /\ validateCall.parsed.start_time = NullStr
    /\ ~validateCall.parsed.all_day
    /\ {"title_missing", "date_missing", "time_missing"} \subseteq Members(validateCall.result.errors)
    /\ validateCall.result.status = "invalid"

\* the candidate is the complete one but for its title
OnlyTitleDiffers ==
    /\ FieldsChecked
    /\ validateCall.parsed.title # NullStr
    /\ validateCall.parsed =
          [BaseCandidate(validateCall.today) EXCEPT !.title = validateCall.parsed.title]

\* C15 as stated: with the other fields valid, a title of length 0 is Invalid
\* with title_missing, a title of more than 100 characters is Invalid with
\* title_length_invalid, and a title of exactly 1 or exactly 100 characters
\* is Valid.
C15_TitleLengthBoundaries ==
    OnlyTitleDiffers
        => LET title == validateCall.parsed.title
               r == validateCall.result
           IN /\ Len(title) = 0 => (~r.valid /\ "title_missing" \in Members(r.errors))
              /\ Len(title) > 100
                    => (~r.valid /\ "title_length_invalid" \in Members(r.errors))
              /\ Len(title) \in {1, 100} => r.valid

\* C15 amended: the same, where the titles of exactly 1 and exactly 100
\* characters that are Valid are those with a character other than the space;
\* a title of spaces only is Invalid with title_missing, at any length.
C15_TitleLengthBoundariesNonBlank ==
    OnlyTitleDiffers
        => LET title == validateCall.parsed.title
               r == validateCall.result
           IN /\ Len(title) = 0 => (~r.valid /\ "title_missing" \in Members(r.errors))
              /\ Len(title) > 100
                    => (~r.valid /\ "title_length_invalid" \in Members(r.errors))
              /\ (Len(title) \in {1, 100} /\ ~Blank(title))
                    => (r.valid /\ r.correctedEvent.title = title)
              /\ Blank(title) => (~r.valid /\ "title_missing" \in Members(r.errors))

\* a title of exactly 100 letters was found Valid
C15_Witness ==
    /\ OnlyTitleDiffers
    /\ Len(validateCall.parsed.title) = 100
    /\ ~Blank(validateCall.parsed.title)
    /\ validateCall.result.valid

\* start dates written YYYY-MM-DD that name no calendar day
UnrealDates ==
    {"2026-02-30", "2026-04-31", "2027-02-29", "2026-13-01", "2026-00-10",
     "2026-06-00", "2026-06-32"}

\* the start date is the n-th day after the server's day
DaysAhead(n) ==
    validateCall.parsed.start_date = DateString(AddDays(validateCall.today, n))

\* C16: a start date written YYYY-MM-DD that is no real calendar day (30
\* February, 31 April, 29 February of a common year, month 13, day 0) is
\* Invalid with date_format_invalid; a real calendar day, 29 February of a
\* leap year included, never gets date_format_invalid.
C16_RealCalendarDay ==
    (FieldsChecked /\ validateCall.parsed.start_date # NullStr)
        => LET date == validateCall.parsed.start_date
               r == validateCall.result
           IN /\ date \in UnrealDates
                    => (~r.valid /\ "date_format_invalid" \in Members(r.errors))
              /\ (date = "2028-02-29" \/ \E n \in DayOffsets : DaysAhead(n))
                    => "date_format_invalid" \notin Members(r.errors)

\* 30 February was rejected as no calendar day
C16_Witness ==
    /\ FieldsChecked
    /\ validateCall.parsed.start_date = "2026-02-30"
    /\ validateCall.parsed.title = "Reuniao com Joao"
    /\ ~validateCall.result.valid
    /\ "date_format_invalid" \in Members(validateCall.result.errors)

\* the candidate is the complete one but for its start date
OnlyDateDiffers ==
    /\ FieldsChecked
    /\ validateCall.parsed.start_date # NullStr
    /\ validateCall.parsed =
          [BaseCandidate(validateCall.today) EXCEPT !.start_date = validateCall.parsed.start_date]

\* C17: with the other fields valid, a start date 365 days after the
\* server's day is Valid, one 366 or more days after it is Invalid with
\* date_too_far_future, and the server's day itself is Valid without an
\* error, on every server day.
C17_FutureDateBound ==
    OnlyDateDiffers
        => LET r == validateCall.result
           IN /\ DaysAhead(365) => r.valid
              /\ (DaysAhead(366) \/ DaysAhead(367) \/ DaysAhead(731))
                    => (~r.valid /\ "date_too_far_future" \in Members(r.errors))
              /\ DaysAhead(0) => (r.valid /\ r.errors = << >>)

\* C18: a start date on a day before the server's day is Invalid with
\* date_out_of_range; the warning date_retroactive_same_day comes only with
\* the server's day itself, and the result is then Valid.
C18_PastDatesRejected ==
    OnlyDateDiffers
        => LET r == validateCall.result
           IN /\ (DaysAhead(0 - 1) \/ DaysAhead(0 - 366))
                    => (~r.valid /\ "date_out_of_range" \in Members(r.errors))
              /\ "date_retroactive_same_day" \in Members(r.warnings)
                    => (DaysAhead(0) /\ r.valid)

\* the candidate is the complete one but for its clock times and duration,
\* and both times are well formed
OnlyTimesDiffer ==
    /\ FieldsChecked
    /\ validateCall.parsed.start_time \in ValidatorTimes
    /\ validateCall.parsed.end_time \in ValidatorTimes
    /\ validateCall.parsed =
          [BaseCandidate(validateCall.today)
              EXCEPT !.start_time = validateCall.parsed.start_time,
                     !.end_time = validateCall.parsed.end_time,
                     !.duration_minutes = validateCall.parsed.duration_minutes]

\* C19: a timed candidate with good fields and well-formed start and end
\* times is Valid iff the end is later than the start in minutes of the day;
\* an end equal to or before the start is Invalid with
\* time_end_before_start.
C19_EndAfterStart ==
    OnlyTimesDiffer
        => LET p == validateCall.parsed
               r == validateCall.result
           IN /\ r.valid <=> (Minutes(p.end_time) > Minutes(p.start_time))
              /\ Minutes(p.end_time) <= Minutes(p.start_time)
                    => (~r.valid /\ r.errors = <<"time_end_before_start">>)

\* an end equal to the start was rejected
C19_Witness ==
    /\ OnlyTimesDiffer
    /\ validateCall.parsed.start_time = "14:30"
    /\ validateCall.parsed.end_time = "14:30"
    /\ validateCall.result.errors = <<"time_end_before_start">>

\* C20 as stated: the event of a Valid result has a title of 1 to 100
\* characters and a start date; all-day, it has neither a start nor an end
\* time; not all-day, it has both; and when it has both the end is later
\* than the start.
C20_ValidatedEventShape ==
    (Validated /\ validateCall.result.valid)
        => LET e == validateCall.result.correctedEvent
           IN /\ e.title # NullStr /\ Len(e.title) \in 1..100
              /\ e.start_date # NullStr /\ e.start_date # ""
              /\ e.all_day => (e.start_time = NullStr /\ e.end_time = NullStr)
              /\ ~e.all_day => (e.start_time # NullStr /\ e.end_time # NullStr)
              /\ (e.start_time # NullStr /\ e.end_time # NullStr)
                    => Minutes(e.end_time) > Minutes(e.start_time)

\* C20 amended: the same, where an event that is not all-day has a start
\* time, and has an end time only when the candidate had one.
C20_ValidatedEventShapeOptionalEnd ==
    (Validated /\ validateCall.result.valid)
        => LET e == validateCall.result.correctedEvent
           IN /\ e.title # NullStr /\ Len(e.title) \in 1..100
              /\ e.start_date # NullStr /\ e.start_date # ""
              /\ e.all_day => (e.start_time = NullStr /\ e.end_time = NullStr)
              /\ ~e.all_day => (e.start_time # NullStr
                                  /\ e.end_time = validateCall.parsed.end_time)
              /\ (e.start_time # NullStr /\ e.end_time # NullStr)
                    => Minutes(e.end_time) > Minutes(e.start_time)

\* an all-day candidate that carried clock times was found Valid
C20_Witness ==
    /\ Validated
    /\ validateCall.result.valid
    /\ validateCall.parsed.all_day
    /\ validateCall.parsed.start_time = "14:30"
    /\ validateCall.parsed.end_time = "15:30"
    /\ validateCall.result.correctedEvent.start_time = NullStr

\* |x|
Abs(x) == IF x < 0 THEN 0 - x ELSE x

\* C21: when start time, end time and duration are all present (a duration
\* of 0 included), the warning duration_mismatch_times is given iff the
\* duration differs from end - start by more than 5 minutes; the warning is
\* never an error and never makes the result Invalid.
C21_DurationMismatchWarns ==
    (OnlyTimesDiffer /\ validateCall.parsed.duration_minutes # NullNum)
        => LET p == validateCall.parsed
               r == validateCall.result
               off == Abs((Minutes(p.end_time) - Minutes(p.start_time)) - p.duration_minutes)
           IN /\ ("duration_mismatch_times" \in Members(r.warnings)) <=> (off > 5)
              /\ "duration_mismatch_times" \notin Members(r.errors)
              /\ Minutes(p.end_time) > Minutes(p.start_time) => r.valid

----------------------------------------------------------------------------
(* More claims about the UndoStore, checked under SpecUndo *)

\* the step is a call of peek, isAlive or remainingSeconds
ReadStep == lastOp'.op \in {"peek", "isAlive", "remainingSeconds"}

SecondsUp(ms) ==
    CHOOSE k \in 0..(UNDO_WINDOW_MS \div 1000) :
        /\ k * 1000 >= ms
        /\ \A j \in 0..(UNDO_WINDOW_MS \div 1000) : j * 1000 >= ms => k <= j

\* C23: remainingSeconds is an integer >= 0: the seconds up to the deadline,
\* rounded up, when the handle is present and the deadline has not passed,
\* and 0 when the handle is absent, consumed or expired. isAlive is true
\* exactly when peek gives a record.
C23_RemainingSeconds ==
    /\ lastOp.op = "remainingSeconds" =>
          /\ lastOp.value \in Nat
          /\ IF lastOp.pre # Null /\ now <= lastOp.pre.undo_deadline
             THEN lastOp.value = SecondsUp(lastOp.pre.undo_deadline - now)
             ELSE lastOp.value = 0
    /\ lastOp.op = "isAlive" =>
          /\ lastOp.value \in BOOLEAN
          /\ lastOp.value <=> (peek(store, lastOp.h, now).ret # Null)
          /\ lastOp.value <=> (lastOp.pre # Null /\ now <= lastOp.pre.undo_deadline)

\* the seconds left were asked for an entry with less than the whole window
\* and not a whole number of seconds left
C23_Witness ==
    /\ lastOp.op = "remainingSeconds"
    /\ lastOp.pre # Null
    /\ now <= lastOp.pre.undo_deadline
    /\ (lastOp.pre.undo_deadline - now) % 1000 # 0
    /\ lastOp.value = ((lastOp.pre.undo_deadline - now) \div 1000) + 1

----------------------------------------------------------------------------
(* More claims about the bot, checked under SpecBot *)

\* the step handles an update of a chat other than the allowed one
OtherChatStep == updates' = updates + 1 /\ lastUpdate'.chat # ALLOWED_CHAT_ID

\* C24: one chat is served. For every update whose chat differs from the
\* allowed one nothing is parsed or validated, nothing is created or deleted,
\* no message is sent and no callback answered, and the cache stays as it was.
C24_SingleAuthorizedChat ==
    [][OtherChatStep =>
          /\ lastUpdate'.kind = "ignored"
          /\ lastUpdate'.sent = << >>
          /\ lastUpdate'.answers = << >>
          /\ lastUpdate'.confirmation = Null
          /\ eventCache' = eventCache
          /\ previews' = previews
          /\ validateCall' = validateCall
          /\ conflictCall' = conflictCall
          /\ createCalls' = createCalls
          /\ created' = created
          /\ deleteCalls' = deleteCalls
          /\ store' = store]_vars

\* an update of another chat was ignored while an attempt of the allowed
\* chat is pending in the cache
C24_Witness ==
    /\ lastUpdate.kind = "ignored"
    /\ lastUpdate.chat # ALLOWED_CHAT_ID
    /\ eventCache # << >>
    /\ \E p \in previews : p.cache_key \in DOMAIN eventCache

----------------------------------------------------------------------------
(* Claims about the parser, checked under SpecParser *)

Parsed == parseCall # NoParse

\* the contents of the model that hold no JSON value
NonJsonContents == {"Nao entendi o pedido.", "{titulo: reuniao}", "''' '''"}

\* the collaborator failed: no key, no HTTP success, an empty or a non-JSON
\* answer
LlmFailed(llm) ==
    \/ ~llm.key
    \/ llm.fetch # "ok"
    \/ llm.content = ""
    \/ llm.content \in NonJsonContents

\* C25: parseEventFromInput never rejects and always gives a candidate. For
\* an empty or blank input the candidate has status error and a non-empty
\* list of ambiguities, and the LLM is not called; for a failure of the LLM
\* (missing key, HTTP error, empty or non-JSON response) the candidate has
\* status error and a non-empty list of ambiguities.
C25_ParserNeverRejects ==
    Parsed =>
        /\ ~parseCall.result.rejected
        /\ parseCall.result.candidate # Null
        /\ Blank(parseCall.input) =>
              /\ ~parseCall.result.called
              /\ parseCall.result.candidate.status = "error"
              /\ parseCall.result.candidate.ambiguities # << >>
        /\ (~Blank(parseCall.input) /\ LlmFailed(parseCall.llm)) =>
              /\ parseCall.result.candidate.status = "error"
              /\ parseCall.result.candidate.ambiguities # << >>

\* the LLM was called with a key, answered over HTTP, and its answer held
\* braces but no JSON: the candidate is the error candidate of the catch block
C25_Witness ==
    /\ Parsed
    /\ ~Blank(parseCall.input)
    /\ parseCall.llm.key
    /\ parseCall.llm.fetch = "ok"
    /\ parseCall.llm.content = "{titulo: reuniao}"
    /\ parseCall.result.called
    /\ parseCall.result.candidate.status = "error"
    /\ parseCall.result.candidate.ambiguities = <<"Parse error: Unexpected token in JSON">>

----------------------------------------------------------------------------
(* Claims about the creator, checked under SpecCreator *)

\* options were built for the run of gog
Built == gogCall # NoGogCall /\ ~gogCall.args.threw

\* the participants that count as resolved: marked resolved, with an email
ResolvedAt(ps) == {i \in DOMAIN ps : ps[i].resolved /\ ps[i].email # NullStr}

\* C26: the attendees hold the owner's email exactly once and the email of
\* every resolved participant, and nothing for an unresolved participant
\* (resolved false, or no email): every entry but the owner's is the email
\* of a resolved participant, one entry for each.
C26_AttendeesOwnerAndResolved ==
    Built =>
        LET ps == gogCall.request.event.participants
            attendees == gogCall.args.attendee_list
        IN /\ Cardinality({j \in DOMAIN attendees : attendees[j] = OWNER_EMAIL}) = 1
           /\ \A i \in ResolvedAt(ps) : ps[i].email \in Members(attendees)
           /\ \A j \in DOMAIN attendees :
                 \/ attendees[j] = OWNER_EMAIL
                 \/ \E i \in ResolvedAt(ps) : ps[i].email = attendees[j]
           /\ Len(attendees) =
                 1 + Cardinality({i \in ResolvedAt(ps) : ps[i].email # OWNER_EMAIL})
           /\ gogCall.args.attendees = Join(attendees, ",")

\* C27: the end of a timed event at creation is its end_time when it has
\* one; otherwise its start plus duration_minutes when that is present, 0
\* included; otherwise its start plus 60 minutes.
C27_EndTimeUsed ==
    (Built /\ ~gogCall.request.event.all_day) =>
        LET event == gogCall.request.event
            expected == IF event.end_time # NullStr THEN event.end_time
                        ELSE IF event.duration_minutes # NullNum
                        THEN computeEndTime(event.start_time, event.duration_minutes)
                        ELSE computeEndTime(event.start_time, 60)
        IN /\ gogCall.args.from = event.start_date \o "T" \o event.start_time \o ":00-03:00"
           /\ gogCall.args.to = event.start_date \o "T" \o expected \o ":00-03:00"

\* an event without end_time and with a duration of 0 minutes ends when it
\* starts
C27_Witness ==
    /\ Built
    /\ gogCall.request.event.start_time = "14:30"
    /\ gogCall.request.event.end_time = NullStr
    /\ gogCall.request.event.duration_minutes = 0
    /\ gogCall.args.to = "2026-02-25T14:30:00-03:00"

\* C28: the computed end is the zero-padded HH:MM of
\* (hour * 60 + minute + d) mod 1440: it wraps past midnight.
C28_ComputeEndTimeWraps ==
    (Built /\ ~gogCall.request.event.all_day /\ gogCall.request.event.end_time = NullStr) =>
        LET event == gogCall.request.event
            d == IF event.duration_minutes = NullNum THEN 60 ELSE event.duration_minutes
            total == (Minutes(event.start_time) + d) % 1440
            end == ClockOf(gogCall.args.to)
        IN /\ Len(end) = 5
           /\ CharAt(end, 3) = ":"
           /\ Minutes(end) = total

\* 30 minutes from 23:45 end at 00:15
C28_Witness ==
    /\ Built
    /\ gogCall.request.event.start_time = "23:45"
    /\ gogCall.request.event.end_time = NullStr
    /\ gogCall.request.event.duration_minutes = 30
    /\ ClockOf(gogCall.args.to) = "00:15"

----------------------------------------------------------------------------
(* Claims about confirm and cancel, checked under SpecBot *)

\* the step handles a click on a confirm button in the allowed chat
ConfirmStep == updates' = updates + 1 /\ lastUpdate'.kind = "confirm"

\* the step handles a click on a cancel button in the allowed chat
CancelStep == updates' = updates + 1 /\ lastUpdate'.kind = "cancel"

C30_CancelledIsTerminal ==
    [][CancelStep =>
          /\ createCalls' = createCalls
          /\ lastUpdate'.confirmation = Null
          /\ lastUpdate'.id \notin DOMAIN eventCache'
          /\ \A p \in previews :
                p.preview_id = lastUpdate'.id => p.cache_key \notin DOMAIN eventCache']_vars

----------------------------------------------------------------------------
(* Claims about the timers of the undo window, checked under SpecExpiry *)

\* the step is the callback of the expiry timer of registerUndoWithExpiry
ExpiryStep == lastUpdate'.kind = "expiry" /\ expiryTimers' # expiryTimers

\* C31: timers do nothing after a consumption. When the handle was consumed
\* before the end of the undo window, the expiry callback registered for it
\* does not invoke onExpiry; and the expiry callback deletes no calendar event.
C31_TimersNoOpAfterConsume ==
    [][ExpiryStep =>
          /\ consumed[lastUpdate'.id] = 0
          /\ deleteCalls' = deleteCalls]_vars

----------------------------------------------------------------------------
(* More claims about the parser, checked under SpecParser *)

\* the LLM answered with the JSON of an event whose duration_minutes is 0
AnsweredZeroDuration ==
    /\ Parsed
    /\ ~Blank(parseCall.input)
    /\ parseCall.llm.key
    /\ parseCall.llm.fetch = "ok"
    /\ parseCall.llm.content = ZeroDurationJson

\* C32: a duration of 0 minutes survives the parsing. When the output of the
\* LLM has duration_minutes = 0, the candidate carries duration_minutes = 0,
\* and so does the validated event built from it.
C32_ZeroDurationSurvives ==
    AnsweredZeroDuration =>
        /\ parseCall.result.candidate.duration_minutes = 0
        /\ validateParsedEvent(parseCall.result.candidate, Today).valid =>
              validateParsedEvent(parseCall.result.candidate, Today)
                  .correctedEvent.duration_minutes = 0

----------------------------------------------------------------------------
(* More claims about the conflict detector, checked under SpecConflict *)

\* C33: an all-day event is answered without a query of the backend. When
\* the event is all-day, checkCalendarConflicts made no fetchEventsForDate
\* call before its result.
C33_AllDayNoQuery ==
    (conflictCall # NoCall /\ conflictCall.event.all_day)
        => conflictCall.queries = << >>

\* positions of the listed events that are timed and overlap the new event
OverlappingAt(event, events) ==
    {i \in 1..Len(events) :
        /\ IsTimed(events[i])
        /\ Minutes(event.start_time) < Minutes(ClockOf(events[i].end.dateTime))
        /\ Minutes(ClockOf(events[i].start.dateTime)) < NewEnd(event)}

\* the k-th smallest member of a set of positions
NthOf(I, k) == CHOOSE i \in I : Cardinality({j \in I : j <= i}) = k

C34_WitnessSkipped ==
    /\ DetectorCompared
    /\ conflictCall.event.start_time = "14:00" /\ conflictCall.event.end_time = "15:00"
    /\ Len(conflictCall.fetched.events) = 2
    /\ conflictCall.fetched.events[1].id = "evt-noend"
    /\ conflictCall.fetched.events[2].id = "evt-14:00"
    /\ Len(conflictCall.result.conflicts) = 1
    /\ conflictCall.result.conflicts[1].calendar_event_id = "evt-14:00"

\* the call was made on a timed new event without end_time
DetectorComputedEnd ==
    DetectorCompared /\ conflictCall.event.end_time = NullStr

\* the new event has no end_time and no duration other than 0
ZeroLength(event) ==
    event.end_time = NullStr /\ event.duration_minutes \in {NullNum, 0}

\* C35: the end of a new event without end_time, inside the detector, is
\* start + duration_minutes when a non-zero duration is present and the
\* start itself otherwise, never start + 60: a listed timed event [s2, e2)
\* is reported exactly when it overlaps that interval, and for a zero-length
\* new event at minute t exactly when s2 < t < e2.
C35_DetectorEndIsStartPlusDuration ==
    DetectorComputedEnd =>
        LET event == conflictCall.event
            t == Minutes(event.start_time)
        IN \A i \in 1..Len(conflictCall.fetched.events) :
              LET evt == conflictCall.fetched.events[i] IN
              IsTimed(evt) =>
                LET s2 == Minutes(ClockOf(evt.start.dateTime))
                    e2 == Minutes(ClockOf(evt.end.dateTime))
                    reported == ReportedIn(conflictCall.result, evt.id)
                IN /\ ZeroLength(event) => (reported <=> (s2 < t /\ t < e2))
                   /\ ~ZeroLength(event) =>
                         (reported <=> (t < e2 /\ s2 < t + event.duration_minutes))

\* C35 witness: new events without end_time and without duration against
\* the listing 14:00-15:00, 15:00-16:00. The one at 14:15 is inside the
\* first event and conflicts with it alone.
C35_Witness ==
    /\ DetectorComputedEnd
    /\ conflictCall.event.start_time = "14:15"
    /\ conflictCall.event.duration_minutes = NullNum
    /\ Len(conflictCall.fetched.events) = 2
    /\ conflictCall.fetched.events[1].id = "evt-14:00"
    /\ conflictCall.fetched.events[2].id = "evt-15:00"
    /\ Len(conflictCall.result.conflicts) = 1
    /\ conflictCall.result.conflicts[1].calendar_event_id = "evt-14:00"

\* C35 witness of the missing default: a new event at 14:00 with duration 0
\* against 14:00-15:00 is no conflict, which the hour of the creation
\* default would make one.
C35_WitnessNoDefault ==
    /\ DetectorComputedEnd
    /\ conflictCall.event.start_time = "14:00"
    /\ conflictCall.event.duration_minutes = 0
    /\ Len(conflictCall.fetched.events) = 1
    /\ conflictCall.fetched.events[1].id = "evt-14:00"
    /\ conflictCall.result = NoConflicts

----------------------------------------------------------------------------
(* More claims about the UndoStore *)

\* the step is the callback of an eviction timer of add()
EvictStep == lastOp'.op = "evict" /\ timers' # timers

\* C36: no early eviction. Whatever adds, consumes and timer firings came
\* before, the same handle registered more than once included, an eviction
\* timer never removes a record whose undo_deadline has not passed: the
\* record stays retrievable by consume(H) up to its own deadline.
C36_NoEarlyEviction ==
    [][(EvictStep /\ lastOp'.pre # Null) =>
          /\ now > lastOp'.pre.undo_deadline
          /\ consume(store, lastOp'.h, now).ret = Null]_vars

\* the step is a call of add()
AddStep == lastOp'.op = "add" /\ adds' = adds + 1

\* C37: every undo record is eventually gone. add(H) schedules the eviction
\* of H at the time of the registration + UNDO_WINDOW_MS + 5000; a handle in
\* the store is absent from it at some later time, whether or not consume or
\* peek is called; and the timer that fires on an absent handle leaves the
\* store as it was.
C37_EventuallyGone ==
    /\ \A h \in Handles : (h \in DOMAIN store) ~> (h \notin DOMAIN store)
    /\ [][AddStep => add_timer(lastOp'.h, now) \in timers']_vars
    /\ [][(EvictStep /\ lastOp'.pre = Null) => store' = store]_vars

\* C37 witness: a record that no consume returned was still in the store
\* when the timer of its registration became due, and the timer removed it.
C37_Witness ==
    /\ lastOp.op = "evict"
    /\ lastOp.pre # Null
    /\ consumed[lastOp.h] = 0
    /\ now >= lastOp.pre.created_at + UNDO_WINDOW_MS + EVICTION_GRACE_MS
    /\ lastOp.h \notin DOMAIN store

----------------------------------------------------------------------------
(* More claims about the creator, checked under SpecCreator *)

\* the event of the request is one the Validator returns as its
\* correctedEvent
AcceptedByValidator(event) ==
    /\ validateParsedEvent(ParsedOf(event), Today).valid
    /\ validateParsedEvent(ParsedOf(event), Today).correctedEvent = event

\* the calendar date at characters 1..10 of an RFC3339 dateTime
DateOf(dateTime) == SubSeq(dateTime, 1, 10)

\* C38: every timed event sent to the backend ends strictly after it
\* starts. For a ValidatedEvent with all_day = false that the Validator
\* accepted, --to denotes a later instant than --from (both carry the
\* date of start_date and the same offset).
C38_EndAfterStart ==
    (Built /\ ~gogCall.request.event.all_day
           /\ AcceptedByValidator(gogCall.request.event)) =>
        /\ DateOf(gogCall.args.to) = DateOf(gogCall.args.from)
        /\ Minutes(ClockOf(gogCall.args.to)) > Minutes(ClockOf(gogCall.args.from))

----------------------------------------------------------------------------
(* More claims about the validator, checked under SpecValidator *)

\* an all-day candidate that passes every check that does not read its
\* clock times: no ambiguities, a title with a character other than the
\* space and of at most 100 characters, a real start date within the range
AllDayOtherwiseGood ==
    /\ FieldsChecked
    /\ validateCall.parsed.all_day
    /\ validateCall.parsed.title # NullStr
    /\ ~Blank(validateCall.parsed.title)
    /\ Len(validateCall.parsed.title) <= 100
    /\ validateCall.parsed.start_date
          \in {DateString(AddDays(validateCall.today, n)) : n \in {0, 1, 364, 365}}

\* absent, or HH:MM with the hour up to 23 and the minute up to 59
ClockOrAbsent(time) ==
    \/ time = NullStr
    \/ /\ Len(time) = 5
       /\ \A i \in {1, 2, 4, 5} : CharAt(time, i) \in Digits
       /\ CharAt(time, 3) = ":"
       /\ DigitValue(CharAt(time, 4)) <= 5
       /\ DigitValue(CharAt(time, 1)) * 10 + DigitValue(CharAt(time, 2)) <= 23

\* C39 as stated: the outcome for such an all-day candidate does not depend
\* on its start_time and end_time; it is Valid with both times null for
\* every value of the two fields.
C39_AllDayIgnoresTimes ==
    AllDayOtherwiseGood =>
        /\ validateCall.result.valid
        /\ validateCall.result.correctedEvent.start_time = NullStr
        /\ validateCall.result.correctedEvent.end_time = NullStr

\* C39 amended: the outcome is Valid with both times null exactly when each
\* of start_time and end_time is absent or a well-formed HH:MM and, both
\* being present, the end is after the start; a malformed time or an end
\* not after the start makes the all-day candidate Invalid.
C39_AllDayTimesStillChecked ==
    AllDayOtherwiseGood =>
        LET st == validateCall.parsed.start_time
            en == validateCall.parsed.end_time
            timesGood == /\ ClockOrAbsent(st) /\ ClockOrAbsent(en)
                         /\ (st # NullStr /\ en # NullStr) => Minutes(en) > Minutes(st)
        IN /\ validateCall.result.valid <=> timesGood
           /\ validateCall.result.valid =>
                 /\ validateCall.result.correctedEvent.start_time = NullStr
                 /\ validateCall.result.correctedEvent.end_time = NullStr
           /\ ~validateCall.result.valid => validateCall.result.status = "invalid"

\* C39 witness: an all-day candidate whose end_time equals its start_time
\* was found Invalid with time_end_before_start.
C39_Witness ==
    /\ AllDayOtherwiseGood
    /\ validateCall.parsed.start_time = "14:30"
    /\ validateCall.parsed.end_time = "14:30"
    /\ ~validateCall.result.valid
    /\ validateCall.result.errors = <<"time_end_before_start">>

----------------------------------------------------------------------------
(* Claims about the polling loop, checked under SpecPoll *)

\* the step is the settling of handleUpdate for an update of the allowed
\* chat whose handling threw inside the try block
FailedHandlingStep ==
    /\ pollPc = "await" /\ pollPc' # "await"
    /\ pollCurrent.chat = ALLOWED_CHAT_ID
    /\ pollCurrent.fails

\* C40: the polling loop survives every failure of a handler and handles
\* the updates one at a time. At most one handleUpdate call is running;
\* lastUpdateId never decreases and no update is returned by getUpdates
\* twice; an error raised while an update is handled is reported to the
\* chat and the loop goes on with the rest of the batch.
C40_PollSurvivesOneAtATime ==
    /\ [](running <= 1)
    /\ [](refetchedIds = {})
    /\ [](pollPc = "getUpdates" => \A id \in fetchedIds : id <= lastUpdateId)
    /\ [][lastUpdateId' >= lastUpdateId]_vars
    /\ [][FailedHandlingStep =>
             /\ pollPc' = "for"
             /\ pollBatch' = pollBatch
             /\ [update_id |-> pollCurrent.update_id, text |-> ProcessingError]
                   \in pollSent']_vars

\* C40 witness: the handling of update 1 failed and was reported, and
\* update 2, fetched afterwards, was handled and answered.
C40_Witness ==
    /\ [update_id |-> 1, text |-> ProcessingError] \in pollSent
    /\ [update_id |-> 2, text |-> "reply"] \in pollSent
    /\ lastUpdateId = 2
    /\ pollPc = "getUpdates"
    /\ refetchedIds = {}

====
